---- MODULE Spec2Model ----
(***************************************************************************)
(* A model of ts.c (frobware/ts): the composite-time conversions and the  *)
(* unit approximator approximate_time, driven the way the program and its  *)
(* self-test test_precision_variations drive them.                         *)
(***************************************************************************)
EXTENDS Integers, Sequences, FiniteSets, TLC

(***************************************************************************)
(* Bounds of the model.                                                    *)
(***************************************************************************)
MaxYear == 2
MaxPrecision == 6
Window == 2
MaxLines == 1
MaxReadings == 2

(***************************************************************************)
(* Program constants.                                                      *)
(***************************************************************************)
YEAR_UNIT == 0
DAY_UNIT == 1
HOUR_UNIT == 2
MINUTE_UNIT == 3
SECOND_UNIT == 4
TIME_UNIT_COUNT == 5

INT_MAX == 2147483647

DAYS_PER_YEAR == 365
HOURS_PER_DAY == 24
MINUTES_PER_HOUR == 60
SECONDS_PER_MINUTE == 60

SECONDS_PER_YEAR == DAYS_PER_YEAR * HOURS_PER_DAY * MINUTES_PER_HOUR * SECONDS_PER_MINUTE
SECONDS_PER_DAY == HOURS_PER_DAY * MINUTES_PER_HOUR * SECONDS_PER_MINUTE
SECONDS_PER_HOUR == MINUTES_PER_HOUR * SECONDS_PER_MINUTE

MAX_VALUES ==
    [i \in 0 .. (TIME_UNIT_COUNT - 1) |->
        CASE i = YEAR_UNIT -> INT_MAX
          [] i = DAY_UNIT -> DAYS_PER_YEAR
          [] i = HOUR_UNIT -> HOURS_PER_DAY
          [] i = MINUTE_UNIT -> MINUTES_PER_HOUR
          [] i = SECOND_UNIT -> SECONDS_PER_MINUTE]

Units == 0 .. (TIME_UNIT_COUNT - 1)

(***************************************************************************)
(* composite_time: time_t[TIME_UNIT_COUNT], indexed from YEAR_UNIT.        *)
(***************************************************************************)
COMP_TIME_INIT(Y, D, H, M, S) ==
    [i \in Units |->
        CASE i = YEAR_UNIT -> Y
          [] i = DAY_UNIT -> D
          [] i = HOUR_UNIT -> H
          [] i = MINUTE_UNIT -> M
          [] i = SECOND_UNIT -> S]

(* seconds_to_composite_time without "remainder %= SECONDS_PER_YEAR" *)
seconds_to_composite_time_no_year_mod(seconds) ==
    LET r2 == seconds % SECONDS_PER_DAY
        r3 == r2 % SECONDS_PER_HOUR
    IN  COMP_TIME_INIT(seconds \div SECONDS_PER_YEAR,
                       seconds \div SECONDS_PER_DAY,
                       r2 \div SECONDS_PER_HOUR,
                       r3 \div SECONDS_PER_MINUTE,
                       r3 % SECONDS_PER_MINUTE)

seconds_to_composite_time(seconds) ==
    LET r1 == seconds % SECONDS_PER_YEAR
        r2 == r1 % SECONDS_PER_DAY
        r3 == r2 % SECONDS_PER_HOUR
    IN  COMP_TIME_INIT(seconds \div SECONDS_PER_YEAR,
                       r1 \div SECONDS_PER_DAY,
                       r2 \div SECONDS_PER_HOUR,
                       r3 \div SECONDS_PER_MINUTE,
                       r3 % SECONDS_PER_MINUTE)

(* composite_time_to_seconds weighting the minutes as hours *)
composite_time_to_seconds_minute_slip(ct) ==
    ct[YEAR_UNIT] * SECONDS_PER_YEAR
    + ct[DAY_UNIT] * SECONDS_PER_DAY
    + ct[HOUR_UNIT] * SECONDS_PER_HOUR
    + ct[MINUTE_UNIT] * SECONDS_PER_HOUR
    + ct[SECOND_UNIT]

composite_time_to_seconds(ct) ==
    ct[YEAR_UNIT] * SECONDS_PER_YEAR
    + ct[DAY_UNIT] * SECONDS_PER_DAY
    + ct[HOUR_UNIT] * SECONDS_PER_HOUR
    + ct[MINUTE_UNIT] * SECONDS_PER_MINUTE
    + ct[SECOND_UNIT]

(***************************************************************************)
(* approximate_time, one pass at a time: a pass runs from the label        *)
(* reapproximate to the next goto or to the return.                        *)
(***************************************************************************)

(* the count as the header comment words it: "skipping the first unit" *)
count_unit_skip_year(i, non_zero_count) ==
    IF i = YEAR_UNIT THEN non_zero_count ELSE non_zero_count + 1

(* line 292: every non-zero unit, YEAR included, is counted *)
count_unit(i, non_zero_count) == non_zero_count + 1

(* the comparison of line 299 off by one: >= for > *)
is_excess_ge(non_zero_count, precision) == non_zero_count >= precision

(* line 299: the running count of non-zero units exceeds the precision *)
is_excess(non_zero_count, precision) == non_zero_count > precision

(* the rounding test with > for >= *)
rounds_up_strict(ct, i) == ct[i] > MAX_VALUES[i] \div 2

(* line 300: the excess unit is at least half its maximum *)
rounds_up(ct, i) == ct[i] >= MAX_VALUES[i] \div 2

(* the overflow test with > for >= *)
is_overflowing_strict(ct, i) == ct[i] > MAX_VALUES[i]

(* line 308: the unit is at or above its maximum *)
is_overflowing(ct, i) == ct[i] >= MAX_VALUES[i]

(* the reset loop of line 304 started one unit too early (j = i - 1) *)
collapse_from_previous(ct, i) ==
    [j \in Units |-> IF j >= i - 1 THEN 0 ELSE ct[j]]

(* lines 300-306: round into the previous unit, reset this and subsequent *)
collapse(ct, i) ==
    [j \in Units |->
        IF j >= i THEN 0
        ELSE IF j = i - 1 /\ rounds_up(ct, i) THEN ct[j] + 1
        ELSE ct[j]]

(* an overflow correction that forgets line 316, the reset of the unit *)
carry_overflow_keep(ct, i) ==
    [j \in Units |-> IF j = i - 1 THEN ct[j] + 1 ELSE ct[j]]

(* lines 315-316: adjust one overflowing unit *)
carry_overflow(ct, i) ==
    [j \in Units |->
        IF j = i THEN 0
        ELSE IF j = i - 1 THEN ct[j] + 1
        ELSE ct[j]]

(* lines 288-311: the for loop from index i on.  The result tells whether  *)
(* the loop left through the goto of line 307 (and at which index) or ran  *)
(* to its end (and with which overflowing_index).                          *)
RECURSIVE scan(_, _, _, _, _)
scan(precision, ct, i, non_zero_count, overflowing_index) ==
    IF i >= TIME_UNIT_COUNT
    THEN [excess |-> -1, overflowing_index |-> overflowing_index]
    ELSE IF ct[i] = 0
    THEN scan(precision, ct, i + 1, non_zero_count, overflowing_index)
    ELSE LET n == count_unit(i, non_zero_count)
         IN  IF i = YEAR_UNIT
             THEN scan(precision, ct, i + 1, n, overflowing_index)
             ELSE IF is_excess(n, precision)
             THEN [excess |-> i, overflowing_index |-> overflowing_index]
             ELSE IF is_overflowing(ct, i)
             THEN scan(precision, ct, i + 1, n, i)
             ELSE scan(precision, ct, i + 1, n, overflowing_index)

(* a pass whose overflow correction is not followed by "goto reapproximate" *)
pass_no_restart(precision, ct) ==
    LET r == scan(precision, ct, 0, 0, -1)
    IN  IF r.excess # -1
        THEN [exit |-> "collapse", index |-> r.excess, ct |-> collapse(ct, r.excess)]
        ELSE IF r.overflowing_index # -1
        THEN [exit |-> "return", index |-> -1,
              ct |-> carry_overflow(ct, r.overflowing_index)]
        ELSE [exit |-> "return", index |-> -1, ct |-> ct]

(* lines 284-318: one pass.  exit is "collapse" (goto of line 307),        *)
(* "overflow" (goto of line 317) or "return" (falling off the end).        *)
pass(precision, ct) ==
    LET r == scan(precision, ct, 0, 0, -1)
    IN  IF r.excess # -1
        THEN [exit |-> "collapse", index |-> r.excess, ct |-> collapse(ct, r.excess)]
        ELSE IF r.overflowing_index # -1
        THEN [exit |-> "overflow", index |-> r.overflowing_index,
              ct |-> carry_overflow(ct, r.overflowing_index)]
        ELSE [exit |-> "return", index |-> -1, ct |-> ct]

(* lines 279-319: approximate_time, all its passes *)
RECURSIVE approximate_time(_, _)
approximate_time(precision, ct) ==
    LET r == pass(precision, ct)
    IN  IF r.exit = "return" THEN r.ct ELSE approximate_time(precision, r.ct)

(***************************************************************************)
(* Text.  A string of the program is a sequence of characters, each a      *)
(* string of length one.                                                   *)
(***************************************************************************)
Digit == {"0", "1", "2", "3", "4", "5", "6", "7", "8", "9"}

Lower ==
    {"a", "b", "c", "d", "e", "f", "g", "h", "i", "j", "k", "l", "m",
     "n", "o", "p", "q", "r", "s", "t", "u", "v", "w", "x", "y", "z"}

Upper ==
    {"A", "B", "C", "D", "E", "F", "G", "H", "I", "J", "K", "L", "M",
     "N", "O", "P", "Q", "R", "S", "T", "U", "V", "W", "X", "Y", "Z"}

(* \w, \s and \d of PCRE2 on the characters above *)
Word == Digit \cup Lower \cup Upper \cup {"_"}
Space == {" ", "\t", "\n"}

(***************************************************************************)
(* The patterns of the table timestamps.  Each is a concatenation of       *)
(* quantified character classes: an atom matches between min and max       *)
(* characters of cls, as many as it can (max = -1: no upper limit).        *)
(***************************************************************************)
Rep(cls, min, max) == [cls |-> cls, min |-> min, max |-> max]
One(cls) == Rep(cls, 1, 1)
Plus(cls) == Rep(cls, 1, -1)
Lit(c) == Rep({c}, 1, 1)

(* \d\d:\d\d and \d\d:\d\d:\d\d *)
HourMinute == <<One(Digit), One(Digit), Lit(":"), One(Digit), One(Digit)>>
HourMinuteSecond == HourMinute \o <<Lit(":"), One(Digit), One(Digit)>>
(* \d{2}:\d{2}:\d{2} *)
HourMinuteSecond2 ==
    <<Rep(Digit, 2, 2), Lit(":"), Rep(Digit, 2, 2), Lit(":"), Rep(Digit, 2, 2)>>
(* \s+[+-]\d\d\d\d *)
Zone ==
    <<Plus(Space), One({"+", "-"}), One(Digit), One(Digit), One(Digit), One(Digit)>>
(* the month before the day: \w\w\w[-\s\/]\d\d *)
MonthDay ==
    <<One(Word), One(Word), One(Word), One({"-", "/"} \cup Space),
      One(Digit), One(Digit)>>
(* \d\d[-\s\/]\w\w\w *)
DayMonth ==
    <<One(Digit), One(Digit), One({"-", "/"} \cup Space),
      One(Word), One(Word), One(Word)>>
(* \/\d\d+ *)
SlashYear == <<Lit("/"), One(Digit), Plus(Digit)>>

(* the strptime formats of the table, as sequences of characters *)
(* "%Y-%m-%dT%H:%M:%S" *)
FmtIso ==
    <<"%", "Y", "-", "%", "m", "-", "%", "d", "T", "%", "H", ":", "%", "M", ":", "%", "S">>
(* "%m%d %H:%M:%S" *)
FmtClientGo ==
    <<"%", "m", "%", "d", " ", "%", "H", ":", "%", "M", ":", "%", "S">>
(* "%d %b %y %H:%M:%S %z" *)
FmtDayMonthYearZone ==
    <<"%", "d", " ", "%", "b", " ", "%", "y", " ", "%", "H", ":", "%", "M", ":", "%", "S", " ", "%", "z">>
(* "%d %b/%y %H:%M:%S %z" *)
FmtDayMonthSlashYearZone ==
    <<"%", "d", " ", "%", "b", "/", "%", "y", " ", "%", "H", ":", "%", "M", ":", "%", "S", " ", "%", "z">>
(* "%d %b %H:%M:%S %z" *)
FmtDayMonthZone ==
    <<"%", "d", " ", "%", "b", " ", "%", "H", ":", "%", "M", ":", "%", "S", " ", "%", "z">>
(* "%d %b/%y %H:%M" *)
FmtDayMonthSlashYearShort ==
    <<"%", "d", " ", "%", "b", "/", "%", "y", " ", "%", "H", ":", "%", "M">>
(* "%d %b %H:%M" *)
FmtDayMonthShort ==
    <<"%", "d", " ", "%", "b", " ", "%", "H", ":", "%", "M">>
(* "%a %b %d %H:%M" *)
FmtLastlog ==
    <<"%", "a", " ", "%", "b", " ", "%", "d", " ", "%", "H", ":", "%", "M">>
(* "%b %d %H:%M:%S" *)
FmtSyslog ==
    <<"%", "b", " ", "%", "d", " ", "%", "H", ":", "%", "M", ":", "%", "S">>

(* lines 123-164: the regular expression and the strptime format of each   *)
(* entry, in table order                                                   *)
TimestampTable ==
    << [re |-> <<Rep(Digit, 4, 4), Lit("-"), Rep(Digit, 2, 2), Lit("-"),
                 Rep(Digit, 2, 2), Lit("T")>> \o HourMinuteSecond2
                 \o <<Lit("."), Rep(Digit, 9, 9), Lit("Z")>>,
        strptime_format |-> FmtIso],
       [re |-> <<Rep(Digit, 2, 2), Rep(Digit, 2, 2), Lit(" ")>> \o HourMinuteSecond2
                 \o <<Lit("."), Rep(Digit, 6, 6)>>,
        strptime_format |-> FmtClientGo],
       [re |-> <<Plus(Digit), Plus(Space), One(Word), One(Word), One(Word),
                 Plus(Space), One(Digit), Plus(Digit), Plus(Space)>>
                 \o HourMinuteSecond \o Zone,
        strptime_format |-> FmtDayMonthYearZone],
       [re |-> DayMonth \o SlashYear \o <<Plus(Space)>> \o HourMinuteSecond \o Zone,
        strptime_format |-> FmtDayMonthSlashYearZone],
       [re |-> DayMonth \o <<Plus(Space)>> \o HourMinuteSecond \o Zone,
        strptime_format |-> FmtDayMonthZone],
       [re |-> DayMonth \o SlashYear \o <<Plus(Space)>> \o HourMinute,
        strptime_format |-> FmtDayMonthSlashYearShort],
       [re |-> DayMonth \o <<Plus(Space)>> \o HourMinute,
        strptime_format |-> FmtDayMonthShort],
       [re |-> <<One(Digit), One(Digit), One(Digit), One(Digit), One({"-", ":"}),
                 One(Digit), One(Digit), One({"-", ":"}), One(Digit), One(Digit),
                 Lit("T")>> \o HourMinuteSecond,
        strptime_format |-> FmtIso],
       [re |-> <<One(Word), One(Word), One(Word), Plus(Space),
                 One(Word), One(Word), One(Word), Plus(Space),
                 One(Digit), One(Digit), Plus(Space)>> \o HourMinute,
        strptime_format |-> FmtLastlog],
       [re |-> <<Rep(Word, 3, 3), Plus(Space), Rep(Digit, 1, 2), Plus(Space)>>
                 \o HourMinuteSecond,
        strptime_format |-> FmtSyslog] >>

NTimestamps == Len(TimestampTable)

(* timestamps[i], i from 0 as in the source *)
timestamps == [i \in 0 .. (NTimestamps - 1) |-> TimestampTable[i + 1]]

(***************************************************************************)
(* pcre2_match: the leftmost match, each atom taking as many characters as *)
(* lets the rest of the pattern match.                                     *)
(***************************************************************************)
(* how many characters of cls follow position pos (from 0), at most limit *)
RECURSIVE run_length(_, _, _, _)
run_length(subject, pos, cls, limit) ==
    IF limit = 0 \/ pos >= Len(subject) \/ subject[pos + 1] \notin cls THEN 0
    ELSE 1 + run_length(subject, pos + 1, cls, limit - 1)

(* the end of a match of re from atom k on at position pos, or -1 *)
RECURSIVE match_here(_, _, _, _)
RECURSIVE match_count(_, _, _, _, _)
match_here(re, k, subject, pos) ==
    IF k > Len(re) THEN pos
    ELSE LET atom == re[k]
             limit == IF atom.max = -1 THEN Len(subject) ELSE atom.max
         IN  match_count(re, k, subject, pos, run_length(subject, pos, atom.cls, limit))

match_count(re, k, subject, pos, count) ==
    IF count < re[k].min THEN -1
    ELSE LET end == match_here(re, k + 1, subject, pos + count)
         IN  IF end # -1 THEN end ELSE match_count(re, k, subject, pos, count - 1)

(* pcre2_match from start position pos on: the ovector, or no match *)
RECURSIVE pcre2_match(_, _, _)
pcre2_match(re, subject, pos) ==
    IF pos > Len(subject) THEN [rc |-> -1, start |-> 0, end |-> 0]
    ELSE LET end == match_here(re, 1, subject, pos)
         IN  IF end # -1 THEN [rc |-> 1, start |-> pos, end |-> end]
             ELSE pcre2_match(re, subject, pos + 1)

(* lines 469-486: match_timestamp, trying the table from entry i on *)
RECURSIVE match_timestamp_from(_, _)
match_timestamp_from(subject, i) ==
    IF i >= NTimestamps
    THEN [matched |-> FALSE, index |-> -1, match_start |-> 0, match_end |-> 0,
          strptime_fmt |-> <<>>]
    ELSE LET m == pcre2_match(timestamps[i].re, subject, 0)
         IN  IF m.rc < 0 THEN match_timestamp_from(subject, i + 1)
             ELSE [matched |-> TRUE, index |-> i, match_start |-> m.start,
                   match_end |-> m.end,
                   strptime_fmt |-> timestamps[i].strptime_format]

(* not the first entry that matches but the entry that matches leftmost *)
match_timestamp_leftmost(subject) ==
    LET hit(i) == pcre2_match(timestamps[i].re, subject, 0)
        hits == {i \in 0 .. (NTimestamps - 1) : hit(i).rc >= 0}
        best == CHOOSE i \in hits :
                    \A j \in hits :
                        \/ hit(i).start < hit(j).start
                        \/ hit(i).start = hit(j).start /\ i <= j
    IN  IF hits = {} THEN match_timestamp_from(subject, NTimestamps)
        ELSE [matched |-> TRUE, index |-> best, match_start |-> hit(best).start,
              match_end |-> hit(best).end,
              strptime_fmt |-> timestamps[best].strptime_format]

match_timestamp(subject) == match_timestamp_from(subject, 0)

(***************************************************************************)
(* strptime (glibc), for the conversions the table uses.  rp is the        *)
(* position in the input, from 0; a result is [ok, rp, ...].               *)
(***************************************************************************)
LowerSeq ==
    <<"a", "b", "c", "d", "e", "f", "g", "h", "i", "j", "k", "l", "m",
      "n", "o", "p", "q", "r", "s", "t", "u", "v", "w", "x", "y", "z">>

UpperSeq ==
    <<"A", "B", "C", "D", "E", "F", "G", "H", "I", "J", "K", "L", "M",
      "N", "O", "P", "Q", "R", "S", "T", "U", "V", "W", "X", "Y", "Z">>

tolower(c) ==
    IF c \in Upper THEN LowerSeq[CHOOSE i \in 1 .. Len(UpperSeq) : UpperSeq[i] = c]
    ELSE c

DigitSeq == <<"0", "1", "2", "3", "4", "5", "6", "7", "8", "9">>

(* c - '0' *)
digit_value(c) == (CHOOSE i \in 1 .. Len(DigitSeq) : DigitSeq[i] = c) - 1

(* the character at rp, "" for the terminating NUL *)
char_at(input, rp) == IF rp < Len(input) THEN input[rp + 1] ELSE ""

(* the abbreviated month and weekday names of the C locale.  The full      *)
(* names cannot occur: every pattern lets exactly three word characters    *)
(* be followed by white space or a slash.                                  *)
ab_month_name ==
    <<<<"j", "a", "n">>,
      <<"f", "e", "b">>,
      <<"m", "a", "r">>,
      <<"a", "p", "r">>,
      <<"m", "a", "y">>,
      <<"j", "u", "n">>,
      <<"j", "u", "l">>,
      <<"a", "u", "g">>,
      <<"s", "e", "p">>,
      <<"o", "c", "t">>,
      <<"n", "o", "v">>,
      <<"d", "e", "c">>>>

ab_day_name ==
    <<<<"s", "u", "n">>,
      <<"m", "o", "n">>,
      <<"t", "u", "e">>,
      <<"w", "e", "d">>,
      <<"t", "h", "u">>,
      <<"f", "r", "i">>,
      <<"s", "a", "t">>>>

(* strncasecmp of a name with the input at rp *)
match_string(name, input, rp) ==
    \A k \in 1 .. Len(name) : tolower(char_at(input, rp + k - 1)) = name[k]

(* the index from 0 of the name of names found at rp, or -1 *)
match_name(names, input, rp) ==
    IF \E n \in 1 .. Len(names) : match_string(names[n], input, rp)
    THEN (CHOOSE n \in 1 .. Len(names) : match_string(names[n], input, rp)) - 1
    ELSE -1

RECURSIVE skip(_, _, _)
skip(input, rp, cls) ==
    IF char_at(input, rp) \in cls THEN skip(input, rp + 1, cls) ELSE rp

(* the do-while of get_number: one more digit while fewer than n were read *)
(* and val * 10 <= to                                                      *)
RECURSIVE get_digits(_, _, _, _, _)
get_digits(input, rp, val, to, n) ==
    LET v == val * 10 + digit_value(char_at(input, rp))
    IN  IF n - 1 > 0 /\ v * 10 <= to /\ char_at(input, rp + 1) \in Digit
        THEN get_digits(input, rp + 1, v, to, n - 1)
        ELSE [val |-> v, rp |-> rp + 1]

(* get_number(from, to, n): spaces are skipped, up to n digits are read *)
get_number(input, rp, from, to, n) ==
    LET p == skip(input, rp, {" "})
    IN  IF char_at(input, p) \notin Digit THEN [ok |-> FALSE, val |-> 0, rp |-> p]
        ELSE LET r == get_digits(input, p, 0, to, n)
             IN  [ok |-> r.val >= from /\ r.val <= to, val |-> r.val, rp |-> r.rp]

(* the digits of %z: at most four, from position rp *)
RECURSIVE zone_digits(_, _, _, _)
zone_digits(input, rp, val, n) ==
    IF n < 4 /\ char_at(input, rp) \in Digit
    THEN LET v == val * 10 + digit_value(char_at(input, rp))
             colon == char_at(input, rp + 1) = ":" /\ n + 1 = 2
                      /\ char_at(input, rp + 2) \in Digit
         IN  zone_digits(input, IF colon THEN rp + 2 ELSE rp + 1, v, n + 1)
    ELSE [val |-> val, n |-> n, rp |-> rp]

(* %z: Z, or a sign and two or four digits *)
get_zone(input, rp) ==
    LET p == skip(input, rp, Space)
    IN  IF char_at(input, p) = "Z" THEN [ok |-> TRUE, rp |-> p + 1]
        ELSE IF char_at(input, p) \notin {"+", "-"} THEN [ok |-> FALSE, rp |-> p]
        ELSE LET r == zone_digits(input, p + 1, 0, 0)
             IN  [ok |-> r.n \in {2, 4} /\ (r.n = 4 => r.val % 100 < 60),
                  rp |-> r.rp]

(* struct tm parsed_tm = { 0 } *)
ZeroTm == [tm_year |-> 0, tm_mon |-> 0, tm_mday |-> 0,
           tm_hour |-> 0, tm_min |-> 0, tm_sec |-> 0]

StrptimeFailed == [ok |-> FALSE, tm |-> ZeroTm]

(* one conversion specification %c at rp: the fields it sets *)
convert(c, input, rp, tm) ==
    CASE c = "Y" ->
            LET r == get_number(input, rp, 0, 9999, 4)
            IN  [ok |-> r.ok, rp |-> r.rp, tm |-> [tm EXCEPT !.tm_year = r.val - 1900]]
      [] c = "y" ->
            LET r == get_number(input, rp, 0, 99, 2)
            IN  [ok |-> r.ok, rp |-> r.rp,
                 tm |-> [tm EXCEPT !.tm_year = IF r.val >= 69 THEN r.val ELSE r.val + 100]]
      [] c = "m" ->
            LET r == get_number(input, rp, 1, 12, 2)
            IN  [ok |-> r.ok, rp |-> r.rp, tm |-> [tm EXCEPT !.tm_mon = r.val - 1]]
      [] c = "d" ->
            LET r == get_number(input, rp, 1, 31, 2)
            IN  [ok |-> r.ok, rp |-> r.rp, tm |-> [tm EXCEPT !.tm_mday = r.val]]
      [] c = "H" ->
            LET r == get_number(input, rp, 0, 23, 2)
            IN  [ok |-> r.ok, rp |-> r.rp, tm |-> [tm EXCEPT !.tm_hour = r.val]]
      [] c = "M" ->
            LET r == get_number(input, rp, 0, 59, 2)
            IN  [ok |-> r.ok, rp |-> r.rp, tm |-> [tm EXCEPT !.tm_min = r.val]]
      [] c = "S" ->
            LET r == get_number(input, rp, 0, 61, 2)
            IN  [ok |-> r.ok, rp |-> r.rp, tm |-> [tm EXCEPT !.tm_sec = r.val]]
      [] c = "b" ->
            LET m == match_name(ab_month_name, input, rp)
            IN  [ok |-> m # -1, rp |-> rp + 3, tm |-> [tm EXCEPT !.tm_mon = m]]
      [] c = "a" ->
            LET d == match_name(ab_day_name, input, rp)
            IN  [ok |-> d # -1, rp |-> rp + 3, tm |-> tm]
      [] c = "z" ->
            LET r == get_zone(input, rp)
            IN  [ok |-> r.ok, rp |-> r.rp, tm |-> tm]
      [] OTHER -> [ok |-> FALSE, rp |-> rp, tm |-> tm]

(* the loop of strptime over the format, from its character fp (from 1) *)
RECURSIVE strptime_from(_, _, _, _, _)
strptime_from(input, rp, format, fp, tm) ==
    IF fp > Len(format) THEN [ok |-> TRUE, tm |-> tm]
    ELSE IF format[fp] \in Space
    THEN strptime_from(input, skip(input, rp, Space), format, fp + 1, tm)
    ELSE IF format[fp] # "%"
    THEN IF char_at(input, rp) = format[fp]
         THEN strptime_from(input, rp + 1, format, fp + 1, tm)
         ELSE StrptimeFailed
    ELSE LET r == convert(format[fp + 1], input, rp, tm)
         IN  IF r.ok THEN strptime_from(input, r.rp, format, fp + 2, r.tm)
             ELSE StrptimeFailed

(* strptime(input, format, &parsed_tm) on a zeroed parsed_tm *)
strptime(input, format) == strptime_from(input, 0, format, 1, ZeroTm)

(***************************************************************************)
(* mktime and localtime, in the time zone main sets when TZ is not given:  *)
(* UTC.  Days are counted from 1970-01-01.                                 *)
(***************************************************************************)
(* the day number of the civil date y-m-d, m in 1 .. 12, d any integer *)
days_from_civil(y, m, d) ==
    LET yy == IF m <= 2 THEN y - 1 ELSE y
        era == yy \div 400
        yoe == yy - era * 400
        mp == IF m > 2 THEN m - 3 ELSE m + 9
        doy == (153 * mp + 2) \div 5 + d - 1
        doe == yoe * 365 + yoe \div 4 - yoe \div 100 + doy
    IN  era * 146097 + doe - 719468

(* the civil date of a day number *)
civil_from_days(days) ==
    LET z == days + 719468
        era == z \div 146097
        doe == z - era * 146097
        yoe == (doe - doe \div 1460 + doe \div 36524 - doe \div 146096) \div 365
        doy == doe - (365 * yoe + yoe \div 4 - yoe \div 100)
        mp == (5 * doy + 2) \div 153
        d == doy - (153 * mp + 2) \div 5 + 1
        m == IF mp < 10 THEN mp + 3 ELSE mp - 9
        y == yoe + era * 400 + (IF m <= 2 THEN 1 ELSE 0)
    IN  [year |-> y, mon |-> m, mday |-> d]

(* the time_t of the fields of tm, out-of-range fields carried over *)
tm_to_time(tm) ==
    LET y == tm.tm_year + 1900 + tm.tm_mon \div 12
        m == (tm.tm_mon % 12) + 1
    IN  days_from_civil(y, m, tm.tm_mday) * SECONDS_PER_DAY
        + tm.tm_hour * SECONDS_PER_HOUR + tm.tm_min * SECONDS_PER_MINUTE + tm.tm_sec

(* localtime(&t): the broken-down time of t *)
localtime(t) ==
    LET c == civil_from_days(t \div SECONDS_PER_DAY)
        r == t % SECONDS_PER_DAY
    IN  [tm_year |-> c.year - 1900, tm_mon |-> c.mon - 1, tm_mday |-> c.mday,
         tm_hour |-> r \div SECONDS_PER_HOUR,
         tm_min |-> (r % SECONDS_PER_HOUR) \div SECONDS_PER_MINUTE,
         tm_sec |-> r % SECONDS_PER_MINUTE]

(* mktime(&tm): the time_t, and tm normalised as mktime leaves it *)
mktime(tm) ==
    LET t == tm_to_time(tm)
    IN  [time |-> t, tm |-> localtime(t)]

(***************************************************************************)
(* Rendering a composite time.  A buffer is a sequence of characters;      *)
(* buf[k] of the source is the element k + 1.                              *)
(***************************************************************************)
(* a byte of the buffer nothing has written yet *)
Unwritten == "<?>"

(* buf[k] = c *)
put(buf, k, c) ==
    [i \in 1 .. (IF k + 1 > Len(buf) THEN k + 1 ELSE Len(buf)) |->
        IF i = k + 1 THEN c
        ELSE IF i <= Len(buf) THEN buf[i]
        ELSE Unwritten]

(* lines 424-430: the number of decimal digits of value *)
RECURSIVE count_digits(_)
count_digits(temp) == IF temp > 0 THEN 1 + count_digits(temp \div 10) ELSE 0

(* lines 437-439: the padding loop, from i on *)
RECURSIVE pad_loop(_, _, _, _)
pad_loop(buf, offset, i, required_padding) ==
    IF i < required_padding
    THEN pad_loop(put(buf, offset + i, "0"), offset, i + 1, required_padding)
    ELSE buf

(* lines 443-446: the digit loop, from i down to 0 *)
RECURSIVE digit_loop(_, _, _, _)
digit_loop(buf, offset, i, temp) ==
    IF i >= 0
    THEN digit_loop(put(buf, offset + i, DigitSeq[(temp % 10) + 1]),
                    offset, i - 1, temp \div 10)
    ELSE buf

(* lines 422-449: the buffer after the call, and the value returned *)
write_ull_padded(buf, offset, value, width) ==
    LET ndigits == IF value = 0 THEN 1 ELSE count_digits(value)
        required_padding ==
            IF width - ndigits < 0 \/ width = 0 THEN 0 ELSE width - ndigits
        padded == pad_loop(buf, offset, 0, required_padding)
    IN  [buf |-> digit_loop(padded, offset, ndigits - 1, value),
         n |-> ndigits + required_padding]

(* lines 184-200 *)
time_unit_symbol(index) ==
    CASE index = YEAR_UNIT -> <<"y", "e", "a", "r">>
      [] index = DAY_UNIT -> <<"d", "a", "y">>
      [] index = HOUR_UNIT -> <<"h", "o", "u", "r">>
      [] index = MINUTE_UNIT -> <<"m", "i", "n", "u", "t", "e">>
      [] index = SECOND_UNIT -> <<"s", "e", "c", "o", "n", "d">>
      [] OTHER -> <<"u", "n", "k", "n", "o", "w", "n">>

(* the loop of lines 455-460 with >= for > in line 456 *)
RECURSIVE format_units_with_zero(_, _, _, _)
format_units_with_zero(buf, offset, ct, i) ==
    IF i >= TIME_UNIT_COUNT THEN [buf |-> buf, offset |-> offset]
    ELSE LET w == write_ull_padded(buf, offset, ct[i], 0)
         IN  format_units_with_zero(
                 put(w.buf, offset + w.n, Head(time_unit_symbol(i))),
                 offset + w.n + 1, ct, i + 1)

(* lines 455-460: the loop over the units, from unit i on *)
RECURSIVE format_units(_, _, _, _)
format_units(buf, offset, ct, i) ==
    IF i >= TIME_UNIT_COUNT THEN [buf |-> buf, offset |-> offset]
    ELSE IF ct[i] > 0
    THEN LET w == write_ull_padded(buf, offset, ct[i], 0)
         IN  format_units(put(w.buf, offset + w.n, Head(time_unit_symbol(i))),
                          offset + w.n + 1, ct, i + 1)
    ELSE format_units(buf, offset, ct, i + 1)

(* lines 462-464: the loop over the direction, from character i on *)
RECURSIVE format_direction(_, _, _, _, _)
format_direction(buf, offset, direction, direction_len, i) ==
    IF i < direction_len
    THEN format_direction(put(buf, offset, direction[i + 1]), offset + 1,
                          direction, direction_len, i + 1)
    ELSE [buf |-> buf, offset |-> offset]

(* lines 451-467: the string format_comp_time leaves in buf, up to the NUL *)
format_comp_time(buf, ct, direction, direction_len) ==
    LET u == format_units(buf, 0, ct, YEAR_UNIT)
        d == format_direction(u.buf, u.offset, direction, direction_len, 0)
    IN  SubSeq(d.buf, 1, d.offset)

Ago == <<" ", "a", "g", "o">>
FromNow == <<" ", "f", "r", "o", "m", " ", "n", "o", "w">>
RightNow == <<"r", "i", "g", "h", "t", " ", "n", "o", "w">>

(***************************************************************************)
(* fmt_time_rel, step by step.                                             *)
(***************************************************************************)
(* lines 572-588: strptime on the matched text, isolated by a NUL at       *)
(* match_end                                                               *)
parse_matched(line, m) ==
    strptime(SubSeq(line, m.match_start + 1, m.match_end), m.strptime_fmt)

(* lines 590-593: a tm_year of 0 is taken for "no year parsed" *)
default_year(tm, now) ==
    IF tm.tm_year = 0 THEN [tm EXCEPT !.tm_year = localtime(now).tm_year] ELSE tm

(* line 608 with < for > *)
in_past(parsed_time, now) == parsed_time < now

(* line 608 with >= for > *)
in_future_or_now(parsed_time, now) == parsed_time >= now

(* line 608 *)
in_future(parsed_time_t, now) == parsed_time_t > now

(* line 618 with the arguments of difftime swapped *)
seconds_diff_swapped(now_sec, then_sec) == then_sec - now_sec

(* line 618: difftime(now.tv_sec, parsed_time_t), as a time_t *)
seconds_diff(now_sec, then_sec) == now_sec - then_sec

labs(x) == IF x < 0 THEN -x ELSE x

(* lines 625-632: the relative text of a difference that is not 0 *)
relative_text(precision_flag, diff) ==
    format_comp_time(<<>>,
                     approximate_time(precision_flag,
                                      seconds_to_composite_time(labs(diff))),
                     IF diff >= 0 THEN Ago ELSE FromNow,
                     IF diff >= 0 THEN 4 ELSE 9)

(* line 1101 as without flag_rel: a space after buf *)
printf_with_space(buf, line, offset) ==
    buf \o <<" ">> \o SubSeq(line, offset + 1, Len(line))

(* line 1101 with flag_rel: what printf("%s%s%s", buf, "", line + offset)  *)
(* writes; a line is text, without a NUL byte, at which %s would stop      *)
printf(buf, line, offset) == buf \o SubSeq(line, offset + 1, Len(line))

(* the decimal digits of n, without leading zeros *)
RECURSIVE Decimal(_)
Decimal(n) ==
    IF n < 10 THEN <<DigitSeq[n + 1]>>
    ELSE Decimal(n \div 10) \o <<DigitSeq[(n % 10) + 1]>>

(***************************************************************************)
(* The format argument: the microsecond specifiers %.S, %.s and %.T, and   *)
(* strftime (glibc, C locale) for the conversions the formats here use.    *)
(* A position in a format counts from 0, as in the source.                 *)
(***************************************************************************)
NANOSECONDS_PER_SECOND == 1000000000

MIN_TIME_BUFSZ == 256

MAX_TIME_BUFSZ == 4096

COLLAPSE_MICROSECOND_SPECFIERS == 1

EXPAND_MICROSECOND_SPECIFIERS == 2

(* lines 323-333 *)
is_microsecond_placeholder(format, pos) ==
    /\ pos + 2 < Len(format)
    /\ format[pos + 1] = "%"
    /\ format[pos + 2] = "."
    /\ format[pos + 3] \in {"S", "s", "T"}

(* the first position from i on that holds a '%', the length of the        *)
(* format when there is none: the loops below pass over the characters     *)
(* before it in one step                                                   *)
next_percent(format, i) ==
    LET at == {k \in i .. (Len(format) - 1) : format[k + 1] = "%"}
    IN  IF at = {} THEN Len(format)
        ELSE CHOOSE k \in at : \A j \in at : k <= j

(* lines 335-348: the loop from position i on *)
RECURSIVE count_microsecond_specifiers_from(_, _)
count_microsecond_specifiers_from(format, i) ==
    IF i >= Len(format) THEN 0
    ELSE IF is_microsecond_placeholder(format, i)
    THEN 1 + count_microsecond_specifiers_from(format, i + 3)
    ELSE count_microsecond_specifiers_from(format, next_percent(format, i + 1))

count_microsecond_specifiers(format) ==
    count_microsecond_specifiers_from(format, 0)

(* lines 368-380: the copying loop from position i on *)
RECURSIVE sanitise_from(_, _, _)
sanitise_from(format, i, op) ==
    IF i >= Len(format) THEN <<>>
    ELSE IF is_microsecond_placeholder(format, i)
    THEN <<"%", format[i + 3]>>
         \o (IF op = EXPAND_MICROSECOND_SPECIFIERS
             THEN <<".", "0", "0", "0", "0", "0", "0">> ELSE <<>>)
         \o sanitise_from(format, i + 3, op)
    ELSE SubSeq(format, i + 1, next_percent(format, i + 1))
         \o sanitise_from(format, next_percent(format, i + 1), op)

(* lines 350-383: the sanitised format *)
sanitise_time_format(format, op) == sanitise_from(format, 0, op)

(* a number in two digits *)
two_digits(n) == <<DigitSeq[(n \div 10) + 1], DigitSeq[(n % 10) + 1]>>

(* %s: the decimal digits of mktime(tm), a time_t of 64 bits.  The number  *)
(* is days * 86400 + seconds of the day; it is written from its hundreds   *)
(* and its last two digits, so that a date of the year 1900 can be         *)
(* written.                                                                *)
epoch_text(tm) ==
    LET days == days_from_civil(tm.tm_year + 1900 + tm.tm_mon \div 12,
                                (tm.tm_mon % 12) + 1, tm.tm_mday)
        secs == tm.tm_hour * SECONDS_PER_HOUR + tm.tm_min * SECONDS_PER_MINUTE
                    + tm.tm_sec
        up == (secs + 99) \div 100
        hundreds == IF days >= 0 THEN days * 864 + secs \div 100
                    ELSE (-days) * 864 - up
        units == IF days >= 0 THEN secs % 100 ELSE up * 100 - secs
    IN  (IF days < 0 THEN <<"-">> ELSE <<>>)
        \o (IF hundreds = 0 THEN Decimal(units)
            ELSE Decimal(hundreds) \o two_digits(units))

(* one conversion specification of strftime *)
strftime_conversion(c, tm) ==
    CASE c = "b" ->
            LET name == ab_month_name[tm.tm_mon + 1]
            IN  <<UpperSeq[CHOOSE i \in 1 .. Len(LowerSeq) : LowerSeq[i] = name[1]],
                  name[2], name[3]>>
      [] c = "d" -> two_digits(tm.tm_mday)
      [] c = "H" -> two_digits(tm.tm_hour)
      [] c = "M" -> two_digits(tm.tm_min)
      [] c = "S" -> two_digits(tm.tm_sec)
      [] c = "T" -> two_digits(tm.tm_hour) \o <<":">> \o two_digits(tm.tm_min)
                        \o <<":">> \o two_digits(tm.tm_sec)
      [] c = "Y" -> Decimal(tm.tm_year + 1900)
      [] c = "s" -> epoch_text(tm)
      [] c = "%" -> <<"%">>
      [] OTHER -> <<"%", c>>

(* the text strftime makes of the format from position fp on *)
RECURSIVE strftime_text(_, _, _)
strftime_text(format, fp, tm) ==
    IF fp >= Len(format) THEN <<>>
    ELSE IF format[fp + 1] = "%" /\ fp + 1 < Len(format)
    THEN strftime_conversion(format[fp + 2], tm) \o strftime_text(format, fp + 2, tm)
    ELSE SubSeq(format, fp + 1, next_percent(format, fp + 1))
         \o strftime_text(format, next_percent(format, fp + 1), tm)

(* strftime(s, maxsize, format, tm): the number of bytes placed in s, the  *)
(* terminating NUL not counted, and s up to its NUL; 0 when the text and   *)
(* its NUL do not fit in maxsize bytes, and the contents of s are then     *)
(* indeterminate (fits is FALSE).                                          *)
strftime(maxsize, format, tm) ==
    LET text == strftime_text(format, 0, tm)
    IN  IF Len(text) + 1 <= maxsize
        THEN [n |-> Len(text), s |-> text, fits |-> TRUE]
        ELSE [n |-> 0, s |-> <<>>, fits |-> FALSE]

(* lines 390-414: the loop of validate_time_format with *bufsz = bufsz;    *)
(* realloc succeeds.  The result is the value returned and *bufsz.         *)
RECURSIVE validate_time_format_from(_, _)
validate_time_format_from(format, bufsz) ==
    IF bufsz > MAX_TIME_BUFSZ THEN [rc |-> -1, bufsz |-> bufsz]
    ELSE LET n == strftime(bufsz, format, ZeroTm).n
         IN  IF n > 0 THEN [rc |-> 0, bufsz |-> bufsz]
             ELSE IF n = 0 /\ bufsz < MAX_TIME_BUFSZ
             THEN validate_time_format_from(
                      format,
                      IF bufsz < MAX_TIME_BUFSZ \div 2 THEN bufsz * 2
                      ELSE MAX_TIME_BUFSZ)
             ELSE [rc |-> IF n = 0 /\ bufsz = MAX_TIME_BUFSZ THEN 0 ELSE -1,
                   bufsz |-> bufsz]

(* lines 385-420 *)
validate_time_format(format) == validate_time_format_from(format, MIN_TIME_BUFSZ)

(***************************************************************************)
(* The clocks.  A struct timespec is [tv_sec, tv_nsec]; the options are    *)
(* the struct ts_opt parse_options returns.                                *)
(***************************************************************************)

(* the first index of needle in haystack, from 0; -1 when it does not     *)
(* occur                                                                   *)
strstr(haystack, needle) ==
    LET at == {i \in 0 .. (Len(haystack) - Len(needle)) :
                 SubSeq(haystack, i + 1, i + Len(needle)) = needle}
    IN  IF at = {} THEN -1
        ELSE CHOOSE i \in at : \A j \in at : i <= j

(* lines 642-647: the loop over the microsecond specifiers, from i on *)
RECURSIVE fill_microseconds(_, _, _, _)
fill_microseconds(buf, i, n_microseconds_specifiers, tv_nsec) ==
    IF i >= n_microseconds_specifiers THEN buf
    ELSE LET placeholder == strstr(buf, <<".", "0", "0", "0", "0", "0", "0">>)
         IN  fill_microseconds(
                 IF placeholder # -1
                 THEN write_ull_padded(buf, placeholder + 1, tv_nsec \div 1000, 6).buf
                 ELSE buf,
                 i + 1, n_microseconds_specifiers, tv_nsec)

(* lines 636-648: fmt->buf after fmt_time_now, when the text fits *)
fmt_time_now(sanitised_time_format, n_microseconds_specifiers, bufsz, tv_sec, tv_nsec) ==
    LET r == strftime(bufsz, sanitised_time_format, localtime(tv_sec))
    IN  IF r.n > 0
        THEN fill_microseconds(r.s, 0, n_microseconds_specifiers, tv_nsec)
        ELSE r.s

(* lines 682-711: *last_seconds, *last_nanoseconds and *monodelta after    *)
(* init_clocks; fatal when the realtime clock is behind the monotonic one. *)
(* mono_time is read with -m only.                                         *)
init_clocks(ts, real_time, mono_time) ==
    IF ts.flag_mono
    THEN [fatal |-> real_time.tv_sec < mono_time.tv_sec,
          monodelta |-> real_time.tv_sec - mono_time.tv_sec,
          last_seconds |-> mono_time.tv_sec + (real_time.tv_sec - mono_time.tv_sec),
          last_nanoseconds |-> mono_time.tv_nsec]
    ELSE [fatal |-> FALSE,
          monodelta |-> 0,
          last_seconds |-> real_time.tv_sec,
          last_nanoseconds |-> IF ts.hires_timestamping THEN real_time.tv_nsec ELSE 0]

(* lines 529-538: the reading of the clock, moved by monodelta and         *)
(* normalised                                                              *)
adjusted(ts, reading, monodelta) ==
    IF ~ts.hires_timestamping THEN reading
    ELSE LET sec == reading.tv_sec + (IF ts.flag_mono THEN monodelta ELSE 0)
         IN  IF reading.tv_nsec >= NANOSECONDS_PER_SECOND
             THEN [tv_sec |-> sec + 1,
                   tv_nsec |-> reading.tv_nsec - NANOSECONDS_PER_SECOND]
             ELSE [tv_sec |-> sec, tv_nsec |-> reading.tv_nsec]

(* the difference of the two fields, without the borrow of lines 543-546 *)
delta_without_borrow(ts, t, last_seconds, last_nanoseconds) ==
    [tv_sec |-> t.tv_sec - last_seconds,
     tv_nsec |-> IF ts.hires_timestamping THEN t.tv_nsec - last_nanoseconds ELSE 0]

(* lines 541-546: the time since the last reading *)
delta(ts, t, last_seconds, last_nanoseconds) ==
    LET delta_seconds == t.tv_sec - last_seconds
        delta_nanoseconds ==
            IF ts.hires_timestamping THEN t.tv_nsec - last_nanoseconds ELSE 0
    IN  IF ts.hires_timestamping /\ delta_nanoseconds < 0
        THEN [tv_sec |-> delta_seconds - 1,
              tv_nsec |-> delta_nanoseconds + NANOSECONDS_PER_SECOND]
        ELSE [tv_sec |-> delta_seconds, tv_nsec |-> delta_nanoseconds]

(* gettime if lines 549-550 were run with -s as well as with -i *)
gettime_storing_last(ts, reading, last_seconds, last_nanoseconds, monodelta) ==
    LET t == adjusted(ts, reading, monodelta)
        differ == ts.flag_inc \/ ts.flag_sincestart
    IN  [now |-> IF differ THEN delta(ts, t, last_seconds, last_nanoseconds) ELSE t,
         last_seconds |-> IF differ THEN t.tv_sec ELSE last_seconds,
         last_nanoseconds |->
            IF differ
            THEN (IF ts.hires_timestamping THEN t.tv_nsec ELSE 0)
            ELSE last_nanoseconds]

(* lines 524-558: *now, *last_seconds and *last_nanoseconds after gettime, *)
(* reading being what clock_gettime stored                                 *)
gettime(ts, reading, last_seconds, last_nanoseconds, monodelta) ==
    LET t == adjusted(ts, reading, monodelta)
        differ == ts.flag_inc \/ ts.flag_sincestart
    IN  [now |-> IF differ THEN delta(ts, t, last_seconds, last_nanoseconds) ELSE t,
         last_seconds |-> IF ts.flag_inc THEN t.tv_sec ELSE last_seconds,
         last_nanoseconds |->
            IF ts.flag_inc
            THEN (IF ts.hires_timestamping THEN t.tv_nsec ELSE 0)
            ELSE last_nanoseconds]

(* a struct timespec d after t, and d before t *)
timespec_add(t, d) ==
    IF t.tv_nsec + d.tv_nsec >= NANOSECONDS_PER_SECOND
    THEN [tv_sec |-> t.tv_sec + d.tv_sec + 1,
          tv_nsec |-> t.tv_nsec + d.tv_nsec - NANOSECONDS_PER_SECOND]
    ELSE [tv_sec |-> t.tv_sec + d.tv_sec, tv_nsec |-> t.tv_nsec + d.tv_nsec]

timespec_sub(t, d) ==
    IF t.tv_nsec < d.tv_nsec
    THEN [tv_sec |-> t.tv_sec - d.tv_sec - 1,
          tv_nsec |-> t.tv_nsec - d.tv_nsec + NANOSECONDS_PER_SECOND]
    ELSE [tv_sec |-> t.tv_sec - d.tv_sec, tv_nsec |-> t.tv_nsec - d.tv_nsec]

(* lines 713-783: parse_options.  The arguments are the option letters,    *)
(* the value of -p if it is given, and the operand if there is one;        *)
(* failed tells that parse_options left through exit(EXIT_FAILURE).        *)
parse_options(argv) ==
    LET flag_inc == "i" \in argv.options
        flag_sincestart == "s" \in argv.options
        flag_mono == "m" \in argv.options
        format == IF argv.operand # <<>> THEN argv.operand[1]
                  ELSE IF flag_inc \/ flag_sincestart
                  THEN <<"%", "H", ":", "%", "M", ":", "%", "S">>
                  ELSE <<"%", "b", " ", "%", "d", " ",
                         "%", "H", ":", "%", "M", ":", "%", "S">>
    IN  [failed |->
            \/ \E value \in {argv.precision[k] : k \in 1 .. Len(argv.precision)} :
                    value < 1 \/ value >= TIME_UNIT_COUNT
            \/ flag_inc /\ flag_sincestart,
         option |->
            [flag_inc |-> flag_inc,
             flag_mono |-> flag_mono,
             flag_rel |-> "r" \in argv.options,
             flag_sincestart |-> flag_sincestart,
             hires_timestamping |->
                count_microsecond_specifiers(format) > 0 \/ flag_mono,
             user_format_specified |-> argv.operand # <<>>,
             format |-> format,
             flag_precision |-> IF argv.precision = <<>> THEN 2
                                ELSE argv.precision[Len(argv.precision)]]]

(***************************************************************************)
(* The inputs the functions are driven with.                               *)
(***************************************************************************)
Halfway(i) == MAX_VALUES[i] \div 2

(* Values of one unit: zero, small values the self-test uses, either side  *)
(* of half the maximum, and either side of the maximum.                    *)
SmallValues(i) ==
    CASE i = DAY_UNIT -> {1}
      [] i = HOUR_UNIT -> {1, 2}
      [] i = MINUTE_UNIT -> {28}
      [] i = SECOND_UNIT -> {1}

UnitValues(i) ==
    IF i = YEAR_UNIT THEN 0 .. MaxYear
    ELSE {0, Halfway(i) - 1, Halfway(i), MAX_VALUES[i] - 1, MAX_VALUES[i]}
         \cup SmallValues(i)

CompTimes ==
    {COMP_TIME_INIT(Y, D, H, M, S) :
        Y \in UnitValues(YEAR_UNIT), D \in UnitValues(DAY_UNIT),
        H \in UnitValues(HOUR_UNIT), M \in UnitValues(MINUTE_UNIT),
        S \in UnitValues(SECOND_UNIT)}

(* Durations in seconds: around the multiples of each unit's length. *)
SecondsValues ==
    {s \in UNION {(k * u - Window) .. (k * u + Window) :
                    k \in 0 .. (MaxYear + 1),
                    u \in {SECONDS_PER_MINUTE, SECONDS_PER_HOUR,
                           SECONDS_PER_DAY, SECONDS_PER_YEAR}} : s >= 0}

Precisions == 0 .. MaxPrecision

Zero == COMP_TIME_INIT(0, 0, 0, 0, 0)

(* Lines of text read from standard input: at least one line for every    *)
(* entry of the table, lines no entry matches, lines an entry matches but  *)
(* strptime rejects, lines with text before and after the timestamp, and   *)
(* years on both sides of now.  Years stay within what 32 bits hold.       *)
Lines ==
    {<<"J", "a", "n", " ", "2", "1", " ", "1", "7", ":", "0", "5", ":", "3", "0", " ", "+", "0", "0", "0", "0", " ", "h", "o", "s", "t", " ", "a", "p", "p", ":", " ", "m", "s", "g", "\n">>,
     <<"x", " ", "D", "e", "c", " ", "2", "1", " ", "1", "7", ":", "0", "5", ":", "3", "0", " ", "y", "\n">>,
     <<"n", "o", " ", "s", "t", "a", "m", "p", "\n">>,
     <<"F", "o", "o", " ", "9", "9", " ", "9", "9", ":", "9", "9", ":", "9", "9", " ", "z", "\n">>,
     <<"F", "e", "b", " ", "0", "5", " ", "2", "1", ":", "0", "0", ":", "0", "0", " ", "a", " ", "2", "0", "2", "4", "-", "0", "2", "-", "0", "5", "T", "2", "0", ":", "0", "0", ":", "0", "0", "\n">>,
     <<"2", "0", "3", "0", "-", "0", "1", "-", "0", "1", "T", "0", "0", ":", "0", "0", ":", "0", "0", " ", "f", "\n">>,
     <<"1", "9", "0", "0", "-", "0", "6", "-", "1", "5", "T", "1", "2", ":", "0", "0", ":", "0", "0", " ", "c", "\n">>,
     <<"F", "e", "b", " ", " ", "5", " ", "2", "1", ":", "0", "0", ":", "0", "0", " ", "n", "\n">>,
     <<"1", "6", " ", "J", "u", "n", " ", "9", "4", " ", "0", "7", ":", "2", "9", ":", "3", "5", " ", "+", "0", "0", "0", "0", "\n">>,
     <<"2", "0", "2", "2", "-", "0", "2", "-", "0", "5", "T", "2", "0", ":", "0", "0", ":", "0", "0", " ", "y", "\n">>,
     <<"1", " ", "J", "a", "n", " ", "2", "0", "2", "4", " ", "1", "0", ":", "0", "0", ":", "0", "0", " ", "+", "0", "1", "0", "0", "\n">>,
     <<"2", "0", "2", "4", "-", "0", "2", "-", "0", "5", " ", "2", "0", ":", "0", "0", ":", "0", "0", "\n">>,
     <<"F", "e", "b", " ", "2", "9", " ", "1", "0", ":", "0", "0", ":", "0", "0", "\n">>,
     <<"2", "1", " ", "d", "e", "c", "/", "9", "3", " ", "1", "7", ":", "0", "5", "\n">>,
     <<"S", "u", "n", " ", "J", "a", "n", " ", "2", "1", " ", "1", "7", ":", "0", "5", "\n">>,
     <<"0", "1", "2", "1", " ", "1", "7", ":", "0", "5", ":", "3", "0", ".", "1", "2", "3", "4", "5", "6", " ", "c", "\n">>,
     <<"2", "0", "2", "4", "-", "0", "1", "-", "2", "1", "T", "1", "7", ":", "0", "5", ":", "3", "0", ".", "1", "2", "3", "4", "5", "6", "7", "8", "9", "Z", " ", "k", "\n">>,
     <<"2", "1", " ", "d", "e", "c", " ", "1", "7", ":", "0", "5", ":", "3", "0", " ", "+", "0", "0", "0", "0", " ", "q", "\n">>,
     <<"2", "1", "-", "d", "e", "c", " ", "1", "7", ":", "0", "5", "\n">>,
     <<"2", "1", " ", "d", "e", "c", "/", "9", "3", " ", "1", "7", ":", "0", "5", ":", "3", "0", " ", "+", "0", "0", "0", "0", "\n">>,
     <<"a", "2", "1", " ", "d", "e", "c", " ", "1", "7", ":", "0", "5", ":", "3", "0", " ", "+", "0", "0", "0", "\n">>,
     <<"F", "e", "b", " ", " ", "5", " ", "2", "0", ":", "5", "8", ":", "3", "0", " ", "r", "\n">>,
     <<"2", "0", "2", "3", "-", "0", "2", "-", "0", "3", "T", "1", "7", ":", "0", "0", ":", "0", "0", " ", "u", "\n">>}

(* Values of the realtime clock: 2024-02-05T21:00:00Z, which some lines     *)
(* carry, and 2024-12-21T17:05:30Z.                                        *)
Nows == {1707166800, 1734800730}

(* lines 743-748: the values -p accepts; without -p the precision is 2 *)
RelPrecisions == 1 .. (TIME_UNIT_COUNT - 1)

(* pcre2_match of every pattern of the table on every line, and            *)
(* match_timestamp on every line: computed once, looked up by the actions  *)
pcre2_matches ==
    [l \in Lines |->
        [i \in 0 .. (NTimestamps - 1) |-> pcre2_match(timestamps[i].re, l, 0)]]

match_timestamps == [l \in Lines |-> match_timestamp(l)]

(* Command lines: each option alone, -i with -s, -m with -i or -s and -r   *)
(* with each other option, without an operand; the microsecond specifiers  *)
(* alone and with                                                          *)
(* -i or -s; a format of MAX_TIME_BUFSZ characters; -p within and out of   *)
(* its range.  -r is not combined with a format.                           *)
Argvs ==
    {[options |-> o, precision |-> <<>>, operand |-> <<>>] :
        o \in {{}, {"i"}, {"s"}, {"m"}, {"i", "s"}, {"i", "m"}, {"s", "m"},
               {"r"}, {"r", "i"}, {"r", "s"}, {"r", "m"}}}
    \cup {[options |-> {}, precision |-> <<>>, operand |-> <<f>>] :
            f \in {<<"%", ".", "S">>, <<"%", ".", "s">>,
                   <<"%", ".", "T", " ", "%", ".", "S">>,
                   [k \in 1 .. MAX_TIME_BUFSZ |-> "x"]}}
    \cup {[options |-> {"i"}, precision |-> <<>>, operand |-> <<<<"%", ".", "s">>>>],
          [options |-> {"s"}, precision |-> <<>>, operand |-> <<<<"%", ".", "S">>>>],
          [options |-> {"r"}, precision |-> <<1>>, operand |-> <<>>],
          [options |-> {"r"}, precision |-> <<TIME_UNIT_COUNT>>, operand |-> <<>>]}

(* the lines the full program reads: one no pattern matches, one a pattern *)
(* matches and strptime rejects, and one with a timestamp of the day and   *)
(* the hour the program runs at                                            *)
MainLines ==
    {<<"n", "o", " ", "s", "t", "a", "m", "p", "\n">>,
     <<"F", "o", "o", " ", "9", "9", " ", "9", "9", ":", "9", "9", ":", "9", "9",
       " ", "z", "\n">>,
     <<"F", "e", "b", " ", " ", "5", " ", "2", "1", ":", "0", "0", ":", "0", "0",
       " ", "n", "\n">>}

(* The realtime clock when the program starts, 2024-02-05T20:59:57Z, the   *)
(* time that passes before a reading of a clock, and the time the system   *)
(* was started, which the monotonic clock counts from.                     *)
StartTime == [tv_sec |-> 1707166797, tv_nsec |-> 0]

Advances ==
    {[tv_sec |-> 0, tv_nsec |-> 123000],
     [tv_sec |-> 2, tv_nsec |-> 999877000]}

BootTime == [tv_sec |-> 1707160000, tv_nsec |-> 400000000]

(***************************************************************************)
(* State.                                                                  *)
(***************************************************************************)
VARIABLES
    pc,          \* where the driver is
    comp_time,   \* the composite_time being worked on
    timestamp,   \* the time_t of the driver
    precision,   \* the precision approximate_time was called with
    init_time,   \* the composite time COMP_TIME_INIT stored
    arg,         \* comp_time when approximate_time was first entered
    calls,       \* calls of approximate_time started
    first,       \* comp_time when the first call returned
    passes,      \* passes of the current call, the one in progress included
    last,        \* how the last pass left: its exit and its index
    prev         \* comp_time when the last modifying pass began

(* The state of a run of ts -r, with no other option but -p, no format     *)
(* argument and TZ unset (main then sets it to UTC).                       *)
VARIABLES
    rpc,            \* where main, or fmt_time_rel under it, is
    flag_precision, \* opt.flag_precision
    line,           \* the line getline returned
    now,            \* now.tv_sec
    buf,            \* fmt.buf, up to its NUL
    offset,         \* offset of main, *match_end of fmt_time_rel
    match,          \* what match_timestamp returned
    parsed_tm,      \* parsed_tm of fmt_time_rel
    parsed_time_t,  \* parsed_time_t of fmt_time_rel
    rel,            \* the course of the last call of fmt_time_rel
    stdout,         \* what each printf wrote
    nlines          \* lines written

approx_vars == <<pc, comp_time, timestamp, precision, init_time, arg, calls, first, passes, last, prev>>

rel_vars == <<rpc, flag_precision, line, now, buf, offset, match, parsed_tm,
              parsed_time_t, rel, stdout, nlines>>

(* The state of a comparison of two ages: a timestamp and an older one,    *)
(* both put through the conversion and approximation of fmt_time_rel.      *)
VARIABLES
    mono_precision, \* opt.flag_precision of the comparison
    mono_time,      \* the age of the timestamp, as units
    mono_diff,      \* labs(seconds_diff) of the timestamp
    mono_shown,     \* the seconds its approximated composite time stands for
    older_diff,     \* labs(seconds_diff) of the younger timestamp shown largest
    older_shown     \* the seconds that one's approximation stands for

mono_vars == <<mono_precision, mono_time, mono_diff, mono_shown, older_diff,
               older_shown>>

(* The state of a run of ts with any options: what main keeps besides the  *)
(* variables above, a signal, the clock, and what happened so far.         *)
VARIABLES
    opt,                       \* the struct ts_opt of main
    realtime,                  \* CLOCK_REALTIME
    secs,                      \* secs of main, *last_seconds of gettime
    nsecs,                     \* nsecs of main, *last_nanoseconds of gettime
    monodelta,                 \* monodelta of main
    now_nsec,                  \* now.tv_nsec of main
    signal_received,           \* the flag the signal handler sets
    sanitised_time_format,     \* fmt.sanitised_time_format
    n_microseconds_specifiers, \* fmt.n_microseconds_specifiers
    bufsz,                     \* fmt.bufsz
    status,                    \* "running", or the exit status of the process
    left,                      \* why the loop was left, and whether fflush was called
    started,                   \* the reading of the clock init_clocks keeps
    history                    \* line, reading of the clock and now of every gettime

main_vars == <<opt, realtime, secs, nsecs, monodelta, now_nsec, signal_received,
               sanitised_time_format, n_microseconds_specifiers, bufsz, status,
               left, started, history>>

vars == <<approx_vars, rel_vars, mono_vars, main_vars>>

NoMatch == match_timestamp_from(<<>>, NTimestamps)

(* the course of a call of fmt_time_rel: how it left, tm_year as strptime  *)
(* left it and as mktime was given it, the first time_t mktime returned,   *)
(* and how often tm_year was decremented                                   *)
NoRel == [exit |-> "none", strptime_year |-> 0, year |-> 0, trial |-> 0,
          decrements |-> 0]

NoPass == [exit |-> "none", index |-> -1]

(* struct ts_opt before parse_options fills it *)
NoOptions ==
    [flag_inc |-> FALSE, flag_mono |-> FALSE, flag_rel |-> FALSE,
     flag_sincestart |-> FALSE, hires_timestamping |-> FALSE,
     user_format_specified |-> FALSE, format |-> <<>>, flag_precision |-> 0]

NotLeft == [cause |-> "none", fflush |-> FALSE]

Init ==
    /\ pc = "idle"
    /\ comp_time = Zero
    /\ timestamp = 0
    /\ precision = 0
    /\ init_time = Zero
    /\ arg = Zero
    /\ calls = 0
    /\ first = Zero
    /\ passes = 0
    /\ last = NoPass
    /\ prev = Zero
    /\ rpc = "start"
    /\ flag_precision = 2
    /\ line = <<>>
    /\ now = 0
    /\ buf = <<>>
    /\ offset = 0
    /\ match = NoMatch
    /\ parsed_tm = ZeroTm
    /\ parsed_time_t = 0
    /\ rel = NoRel
    /\ stdout = <<>>
    /\ nlines = 0
    /\ mono_precision = 0
    /\ mono_time = Zero
    /\ mono_diff = 0
    /\ mono_shown = 0
    /\ older_diff = 0
    /\ older_shown = 0
    /\ opt = NoOptions
    /\ realtime = StartTime
    /\ secs = 0
    /\ nsecs = 0
    /\ monodelta = 0
    /\ now_nsec = 0
    /\ signal_received = 0
    /\ sanitised_time_format = <<>>
    /\ n_microseconds_specifiers = 0
    /\ bufsz = 0
    /\ status = "running"
    /\ left = NotLeft
    /\ started = [tv_sec |-> 0, tv_nsec |-> 0]
    /\ history = <<>>

(* COMP_TIME_INIT(comp_time, Y, D, H, M, S) *)
CompTimeInit ==
    /\ pc = "idle"
    /\ \E ct \in CompTimes :
        /\ comp_time' = ct
        /\ init_time' = ct
    /\ pc' = "init"
    /\ UNCHANGED <<timestamp, precision, arg, calls, first, passes, last, prev>>
    /\ UNCHANGED <<rel_vars, mono_vars, main_vars>>

(* timestamp = composite_time_to_seconds(comp_time) *)
ToSeconds ==
    /\ pc = "init"
    /\ timestamp' = composite_time_to_seconds(comp_time)
    /\ pc' = "seconds"
    /\ UNCHANGED <<comp_time, precision, init_time, arg, calls, first, passes, last, prev>>
    /\ UNCHANGED <<rel_vars, mono_vars, main_vars>>

(* a duration handed over in seconds, as labs(seconds_diff) is *)
TakeSeconds ==
    /\ pc = "idle"
    /\ \E s \in SecondsValues : timestamp' = s
    /\ pc' = "seconds"
    /\ UNCHANGED <<comp_time, precision, init_time, arg, calls, first, passes, last, prev>>
    /\ UNCHANGED <<rel_vars, mono_vars, main_vars>>

(* seconds_to_composite_time(timestamp, comp_time) *)
ToComposite ==
    /\ pc = "seconds"
    /\ comp_time' = seconds_to_composite_time(timestamp)
    /\ pc' = "raw"
    /\ UNCHANGED <<timestamp, precision, init_time, arg, calls, first, passes, last, prev>>
    /\ UNCHANGED <<rel_vars, mono_vars, main_vars>>

(* approximate_time(p, comp_time) is entered, on a composite time that is  *)
(* fresh from the conversion or was stored directly.                       *)
Approximate ==
    /\ pc \in {"init", "raw"}
    /\ \E p \in Precisions : precision' = p
    /\ arg' = comp_time
    /\ calls' = 1
    /\ passes' = 0
    /\ last' = NoPass
    /\ pc' = "reapproximate"
    /\ UNCHANGED <<comp_time, timestamp, init_time, first, prev>>
    /\ UNCHANGED <<rel_vars, mono_vars, main_vars>>

(* a pass that ends in the goto of line 307 *)
PassCollapse ==
    /\ pc = "reapproximate"
    /\ LET r == pass(precision, comp_time)
       IN  /\ r.exit = "collapse"
           /\ comp_time' = r.ct
           /\ last' = [exit |-> r.exit, index |-> r.index]
    /\ passes' = passes + 1
    /\ prev' = comp_time
    /\ UNCHANGED <<pc, timestamp, precision, init_time, arg, calls, first>>
    /\ UNCHANGED <<rel_vars, mono_vars, main_vars>>

(* a pass that ends in the goto of line 317 *)
PassOverflow ==
    /\ pc = "reapproximate"
    /\ LET r == pass(precision, comp_time)
       IN  /\ r.exit = "overflow"
           /\ comp_time' = r.ct
           /\ last' = [exit |-> r.exit, index |-> r.index]
    /\ passes' = passes + 1
    /\ prev' = comp_time
    /\ UNCHANGED <<pc, timestamp, precision, init_time, arg, calls, first>>
    /\ UNCHANGED <<rel_vars, mono_vars, main_vars>>

(* a pass that finds nothing to do: approximate_time returns *)
PassReturn ==
    /\ pc = "reapproximate"
    /\ LET r == pass(precision, comp_time)
       IN  /\ r.exit = "return"
           /\ comp_time' = r.ct
    /\ passes' = passes + 1
    /\ first' = IF calls = 1 THEN comp_time' ELSE first
    /\ pc' = "returned"
    /\ UNCHANGED <<timestamp, precision, init_time, arg, calls, last, prev>>
    /\ UNCHANGED <<rel_vars, mono_vars, main_vars>>

(* approximate_time(precision, comp_time) once more, on its own result *)
ApproximateAgain ==
    /\ pc = "returned"
    /\ calls = 1
    /\ calls' = 2
    /\ passes' = 0
    /\ last' = NoPass
    /\ pc' = "reapproximate"
    /\ UNCHANGED <<comp_time, timestamp, precision, init_time, arg, first, prev>>
    /\ UNCHANGED <<rel_vars, mono_vars, main_vars>>

Next ==
    \/ CompTimeInit
    \/ ToSeconds
    \/ TakeSeconds
    \/ ToComposite
    \/ Approximate
    \/ PassCollapse
    \/ PassOverflow
    \/ PassReturn
    \/ ApproximateAgain

Spec == Init /\ [][Next]_vars

(***************************************************************************)
(* A run of ts -r: main, lines 1043-1105.                                  *)
(***************************************************************************)
(* line 1043: parse_options *)
ParseOptions ==
    /\ rpc = "start"
    /\ \E p \in RelPrecisions : flag_precision' = p
    /\ rpc' = "getline"
    /\ UNCHANGED <<line, now, buf, offset, match, parsed_tm, parsed_time_t,
                   rel, stdout, nlines>>
    /\ UNCHANGED <<approx_vars, mono_vars, main_vars>>

(* line 1077: getline returns a line *)
GetLine ==
    /\ rpc = "getline"
    /\ nlines < MaxLines
    /\ \E l \in Lines : line' = l
    /\ rpc' = "gettime"
    /\ UNCHANGED <<flag_precision, now, buf, offset, match, parsed_tm,
                   parsed_time_t, rel, stdout, nlines>>
    /\ UNCHANGED <<approx_vars, mono_vars, main_vars>>

(* lines 1079-1081: getline returns -1 at the end of the input *)
EndOfInput ==
    /\ rpc = "getline"
    /\ rpc' = "eof"
    /\ UNCHANGED <<flag_precision, line, now, buf, offset, match, parsed_tm,
                   parsed_time_t, rel, stdout, nlines>>
    /\ UNCHANGED <<approx_vars, mono_vars, main_vars>>

(* lines 1088-1094: gettime, then offset = 0 *)
GetTime ==
    /\ rpc = "gettime"
    /\ \E t \in Nows : now' = t
    /\ offset' = 0
    /\ rpc' = "fmt_time_rel"
    /\ UNCHANGED <<flag_precision, line, buf, match, parsed_tm, parsed_time_t,
                   rel, stdout, nlines>>
    /\ UNCHANGED <<approx_vars, mono_vars, main_vars>>

(* lines 565-570: no entry of the table matches, fmt_time_rel returns *)
MatchNone ==
    /\ rpc = "fmt_time_rel"
    /\ LET m == match_timestamps[line]
       IN  /\ ~m.matched
           /\ match' = m
    /\ offset' = 0
    /\ buf' = <<>>
    /\ rel' = [NoRel EXCEPT !.exit = "no match"]
    /\ rpc' = "printf"
    /\ UNCHANGED <<flag_precision, line, now, parsed_tm, parsed_time_t,
                   stdout, nlines>>
    /\ UNCHANGED <<approx_vars, mono_vars, main_vars>>

(* lines 565-568: an entry matches; match_timestamp has set *match_end *)
MatchFound ==
    /\ rpc = "fmt_time_rel"
    /\ LET m == match_timestamps[line]
       IN  /\ m.matched
           /\ match' = m
           /\ offset' = m.match_end
    /\ buf' = <<>>
    /\ rel' = NoRel
    /\ rpc' = "strptime"
    /\ UNCHANGED <<flag_precision, line, now, parsed_tm, parsed_time_t,
                   stdout, nlines>>
    /\ UNCHANGED <<approx_vars, mono_vars, main_vars>>

(* lines 573-586: strptime returns NULL, fmt_time_rel returns *)
StrptimeFails ==
    /\ rpc = "strptime"
    /\ ~parse_matched(line, match).ok
    /\ parsed_tm' = ZeroTm
    /\ rel' = [rel EXCEPT !.exit = "parse failure"]
    /\ rpc' = "printf"
    /\ UNCHANGED <<flag_precision, line, now, buf, offset, match,
                   parsed_time_t, stdout, nlines>>
    /\ UNCHANGED <<approx_vars, mono_vars, main_vars>>

(* lines 573-588: strptime fills parsed_tm *)
StrptimeParses ==
    /\ rpc = "strptime"
    /\ LET parsed == parse_matched(line, match)
       IN  /\ parsed.ok
           /\ parsed_tm' = parsed.tm
           /\ rel' = [rel EXCEPT !.strptime_year = parsed.tm.tm_year]
    /\ rpc' = "year"
    /\ UNCHANGED <<flag_precision, line, now, buf, offset, match,
                   parsed_time_t, stdout, nlines>>
    /\ UNCHANGED <<approx_vars, mono_vars, main_vars>>

(* lines 590-593 *)
DefaultYear ==
    /\ rpc = "year"
    /\ parsed_tm' = default_year(parsed_tm, now)
    /\ rel' = [rel EXCEPT !.year = parsed_tm'.tm_year]
    /\ rpc' = "mktime"
    /\ UNCHANGED <<flag_precision, line, now, buf, offset, match,
                   parsed_time_t, stdout, nlines>>
    /\ UNCHANGED <<approx_vars, mono_vars, main_vars>>

(* lines 605-607 *)
Mktime ==
    /\ rpc = "mktime"
    /\ LET r == mktime(parsed_tm)
       IN  /\ parsed_time_t' = r.time
           /\ parsed_tm' = r.tm
           /\ rel' = [rel EXCEPT !.trial = r.time]
    /\ rpc' = "future"
    /\ UNCHANGED <<flag_precision, line, now, buf, offset, match, stdout, nlines>>
    /\ UNCHANGED <<approx_vars, mono_vars, main_vars>>

(* lines 608-613: the instant lies after now *)
CorrectFuture ==
    /\ rpc = "future"
    /\ in_future(parsed_time_t, now)
    /\ LET r == mktime([parsed_tm EXCEPT !.tm_year = @ - 1])
       IN  /\ parsed_time_t' = r.time
           /\ parsed_tm' = r.tm
    /\ rel' = [rel EXCEPT !.decrements = @ + 1]
    /\ rpc' = "render"
    /\ UNCHANGED <<flag_precision, line, now, buf, offset, match, stdout, nlines>>
    /\ UNCHANGED <<approx_vars, mono_vars, main_vars>>

(* line 608: the instant does not lie after now *)
KeepPast ==
    /\ rpc = "future"
    /\ ~in_future(parsed_time_t, now)
    /\ rpc' = "render"
    /\ UNCHANGED <<flag_precision, line, now, buf, offset, match, parsed_tm,
                   parsed_time_t, rel, stdout, nlines>>
    /\ UNCHANGED <<approx_vars, mono_vars, main_vars>>

(* lines 618-623: no difference, fmt_time_rel returns *)
RenderRightNow ==
    /\ rpc = "render"
    /\ seconds_diff(now, parsed_time_t) = 0
    /\ buf' = RightNow
    /\ rel' = [rel EXCEPT !.exit = "right now"]
    /\ rpc' = "printf"
    /\ UNCHANGED <<flag_precision, line, now, offset, match, parsed_tm,
                   parsed_time_t, stdout, nlines>>
    /\ UNCHANGED <<approx_vars, mono_vars, main_vars>>

(* lines 618-633: the difference as a composite time *)
RenderRelative ==
    /\ rpc = "render"
    /\ seconds_diff(now, parsed_time_t) # 0
    /\ buf' = relative_text(flag_precision, seconds_diff(now, parsed_time_t))
    /\ rel' = [rel EXCEPT !.exit = "relative"]
    /\ rpc' = "printf"
    /\ UNCHANGED <<flag_precision, line, now, offset, match, parsed_tm,
                   parsed_time_t, stdout, nlines>>
    /\ UNCHANGED <<approx_vars, mono_vars, main_vars>>

(* line 1101 *)
Printf ==
    /\ rpc = "printf"
    /\ stdout' = Append(stdout, printf(buf, line, offset))
    /\ nlines' = nlines + 1
    /\ rpc' = "getline"
    /\ UNCHANGED <<flag_precision, line, now, buf, offset, match, parsed_tm,
                   parsed_time_t, rel>>
    /\ UNCHANGED <<approx_vars, mono_vars, main_vars>>

NextRel ==
    \/ ParseOptions
    \/ GetLine
    \/ EndOfInput
    \/ GetTime
    \/ MatchNone
    \/ MatchFound
    \/ StrptimeFails
    \/ StrptimeParses
    \/ DefaultYear
    \/ Mktime
    \/ CorrectFuture
    \/ KeepPast
    \/ RenderRightNow
    \/ RenderRelative
    \/ Printf

SpecRel == Init /\ [][NextRel]_vars

(***************************************************************************)
(* Properties.                                                             *)
(***************************************************************************)
RawBounded(ct) ==
    /\ ct[YEAR_UNIT] >= 0
    /\ ct[DAY_UNIT] >= 0 /\ ct[DAY_UNIT] < 365
    /\ ct[HOUR_UNIT] >= 0 /\ ct[HOUR_UNIT] < 24
    /\ ct[MINUTE_UNIT] >= 0 /\ ct[MINUTE_UNIT] < 60
    /\ ct[SECOND_UNIT] >= 0 /\ ct[SECOND_UNIT] < 60

NonZeroUnits(ct) == {i \in Units : ct[i] # 0}

(* the first call of approximate_time has returned and nothing ran since *)
Returned == pc = "returned" /\ calls = 1

(* C1: for every non-negative number of seconds s, converting s to a       *)
(* composite time and the composite time back to seconds gives s.          *)
C1_RoundTrip ==
    pc = "raw" => composite_time_to_seconds(comp_time) = timestamp

C1_Witness ==
    /\ pc = "raw"
    /\ timestamp = 2 * SECONDS_PER_YEAR - 1
    /\ comp_time = COMP_TIME_INIT(1, 364, 23, 59, 59)

(* C2: the composite time seconds_to_composite_time produces has DAY in    *)
(* [0,365), HOUR in [0,24), MINUTE in [0,60), SECOND in [0,60), and a      *)
(* composite time already inside those bounds comes back unchanged from    *)
(* composite_time_to_seconds followed by seconds_to_composite_time.        *)
C2_RawBounds ==
    pc = "raw" =>
        /\ RawBounded(comp_time)
        /\ (RawBounded(init_time) /\ timestamp = composite_time_to_seconds(init_time)
                => comp_time = init_time)

C2_Witness ==
    /\ pc = "raw"
    /\ init_time = COMP_TIME_INIT(2, 364, 23, 59, 59)
    /\ comp_time = init_time

(* C3: approximate_time is idempotent: called on its own result, with the  *)
(* same precision, it changes nothing.                                     *)
C3_Idempotent ==
    pc = "returned" /\ calls = 2 => comp_time = first

C3_Witness ==
    /\ pc = "returned"
    /\ calls = 2
    /\ precision = 3
    /\ arg = COMP_TIME_INIT(1, 364, 23, 59, 60)
    /\ comp_time # arg

(* the number of non-zero units of ct among the indices lo .. hi *)
NonZeroCount(ct, lo, hi) == Cardinality({j \in lo .. hi : ct[j] # 0})

RoundedToMinute(ct) ==
    composite_time_to_seconds(ct) - ct[SECOND_UNIT]
    + (IF ct[SECOND_UNIT] >= 30 THEN 60 ELSE 0)

RECURSIVE CarryInto(_, _)
CarryInto(ct, i) ==
    IF i = SECOND_UNIT THEN 0
    ELSE IF ct[i + 1] + CarryInto(ct, i + 1) >= MAX_VALUES[i + 1] THEN 1
    ELSE 0

OverflowCorrected(ct) ==
    [i \in Units |->
        LET v == ct[i] + CarryInto(ct, i)
        IN  IF i # YEAR_UNIT /\ v >= MAX_VALUES[i] THEN 0 ELSE v]

(* C7: with precision >= 5 no pass collapses a unit; the result is the     *)
(* input with its overflowing units reset and carried, and so a            *)
(* raw-bounded input is returned unchanged.                                *)
C7_OverflowCorrectionOnly ==
    precision >= 5 =>
        /\ last.exit # "collapse"
        /\ pc = "returned" =>
              /\ comp_time = OverflowCorrected(arg)
              /\ RawBounded(arg) => comp_time = arg

C7_Witness ==
    /\ Returned
    /\ precision = 5
    /\ arg = COMP_TIME_INIT(1, 364, 23, 59, 60)
    /\ comp_time = COMP_TIME_INIT(2, 0, 0, 0, 0)

C9_BelowMaximum ==
    pc = "returned" =>
        /\ comp_time[DAY_UNIT] < 365
        /\ comp_time[HOUR_UNIT] < 24
        /\ comp_time[MINUTE_UNIT] < 60
        /\ comp_time[SECOND_UNIT] < 60
        /\ precision = 2 /\ arg = COMP_TIME_INIT(1, 364, 23, 59, 59)
              => comp_time = COMP_TIME_INIT(2, 0, 0, 0, 0)

C9_Witness ==
    /\ Returned
    /\ precision = 4
    /\ arg = COMP_TIME_INIT(0, 0, 0, 0, 60)
    /\ comp_time = COMP_TIME_INIT(0, 0, 0, 1, 0)

RoundingThreshold(i) ==
    CASE i = DAY_UNIT -> 182
      [] i = HOUR_UNIT -> 12
      [] i = MINUTE_UNIT -> 30
      [] i = SECOND_UNIT -> 30

(* C10: a pass that collapses the excess unit i adds exactly 1 to unit     *)
(* i - 1 if and only if unit i is at least half its maximum (182, 12, 30,  *)
(* 30), whatever the less significant units hold, resets unit i and every  *)
(* less significant unit, and leaves the other units alone.                *)
C10_RoundHalfUp ==
    /\ last.exit = "collapse" =>
        LET i == last.index
        IN  /\ comp_time[i - 1] =
                  prev[i - 1] + (IF prev[i] >= RoundingThreshold(i) THEN 1 ELSE 0)
            /\ \A j \in i .. SECOND_UNIT : comp_time[j] = 0
            /\ \A j \in YEAR_UNIT .. (i - 2) : comp_time[j] = prev[j]
    /\ Returned /\ arg = COMP_TIME_INIT(0, 0, 1, 59, 30) /\ precision = 2
          => comp_time = COMP_TIME_INIT(0, 0, 2, 0, 0)
    /\ Returned /\ arg = COMP_TIME_INIT(0, 1, 2, 28, 30) /\ precision = 1
          => comp_time = COMP_TIME_INIT(0, 1, 0, 0, 0)
    /\ Returned /\ arg = COMP_TIME_INIT(0, 1, 2, 28, 30) /\ precision = 3
          => comp_time = COMP_TIME_INIT(0, 1, 2, 29, 0)

C10_Witness ==
    /\ Returned
    /\ precision = 3
    /\ arg = COMP_TIME_INIT(0, 1, 2, 28, 30)
    /\ last = [exit |-> "collapse", index |-> SECOND_UNIT]
    /\ comp_time = COMP_TIME_INIT(0, 1, 2, 29, 0)

(* C11: for every precision >= 1, approximate_time leaves a composite time *)
(* that had a non-zero unit with at least one non-zero unit, so the text   *)
(* format_comp_time renders from it, in either direction, is more than the *)
(* direction suffix.                                                       *)
C11_NonZeroSurvives ==
    (Returned /\ precision >= 1 /\ arg # Zero) =>
        /\ comp_time # Zero
        /\ format_comp_time(<<>>, comp_time, Ago, 4) # Ago
        /\ format_comp_time(<<>>, comp_time, FromNow, 9) # FromNow

(* a call with precision 1 that dropped units and kept one *)
C11_Witness ==
    /\ Returned
    /\ precision = 1
    /\ NonZeroCount(arg, YEAR_UNIT, SECOND_UNIT) >= 3
    /\ NonZeroCount(comp_time, YEAR_UNIT, SECOND_UNIT) = 1

(* the last line has been written and nothing was read since *)
Written == rpc = "getline" /\ nlines > 0

(* what the last printf wrote *)
LastWritten == stdout[Len(stdout)]

(* C12: when an entry of the table matches the line and strptime rejects   *)
(* the matched text, the whole line is written as it was read, as when no  *)
(* entry matches.                                                          *)
C12_ParseFailurePassesLine ==
    (Written /\ rel.exit = "parse failure") => LastWritten = line

(* the line "Foo 99 99:99:99 z": the syslog entry matches its first 15     *)
(* bytes, strptime rejects them, and only " z" is written                  *)
C12_Witness ==
    /\ Written
    /\ rel.exit = "parse failure"
    /\ line = <<"F", "o", "o", " ", "9", "9", " ", "9", "9", ":", "9", "9",
                ":", "9", "9", " ", "z", "\n">>
    /\ offset = 15
    /\ LastWritten = <<" ", "z", "\n">>

(* no pattern of the table matches anywhere in the line *)
NoTemplateMatches(subject) ==
    \A i \in 0 .. (NTimestamps - 1) : pcre2_matches[subject][i].rc < 0

(* C13: when no pattern of the table matches the line, match_timestamp     *)
(* reports no match, fmt_time_rel leaves an empty text and offset 0, and   *)
(* the line is written as it was read.                                     *)
C13_NoMatchPassesLine ==
    (Written /\ NoTemplateMatches(line)) =>
        /\ ~match.matched
        /\ rel.exit = "no match"
        /\ buf = <<>>
        /\ offset = 0
        /\ LastWritten = line

(* a line with digits and colons but no timestamp of the table *)
C13_Witness ==
    /\ Written
    /\ NoTemplateMatches(line)
    /\ line = <<"2", "0", "2", "4", "-", "0", "2", "-", "0", "5", " ",
                "2", "0", ":", "0", "0", ":", "0", "0", "\n">>
    /\ LastWritten = line

(* match holds what match_timestamp returned for the current line *)
AfterMatch == rpc \in {"strptime", "year", "mktime", "future", "render", "printf"}

(* C14: the entry match_timestamp returns is the first of the table, in    *)
(* table order, whose pattern matches the line, however far to the left a  *)
(* later entry would match; the span is that pattern's match and the parse *)
(* format is that entry's.                                                 *)
C14_FirstInTableOrder ==
    (AfterMatch /\ match.matched) =>
        LET own == pcre2_matches[line][match.index]
        IN  /\ \A j \in 0 .. (match.index - 1) : pcre2_matches[line][j].rc < 0
            /\ own.rc >= 0
            /\ match.match_start = own.start
            /\ match.match_end = own.end
            /\ match.strptime_fmt = timestamps[match.index].strptime_format

(* the ISO-8601 entry wins at byte 18 although the syslog entry, listed    *)
(* after it, matches at byte 0                                             *)
C14_Witness ==
    /\ AfterMatch
    /\ match.matched
    /\ match.index = 7
    /\ match.match_start = 18
    /\ \E j \in (match.index + 1) .. (NTimestamps - 1) :
           LET later == pcre2_matches[line][j]
           IN  later.rc >= 0 /\ later.start < match.match_start

(* the parse format has a %z *)
HasZone(format) ==
    \E k \in 1 .. (Len(format) - 1) : format[k] = "%" /\ format[k + 1] = "z"

SyslogZoneLine ==
    <<"J", "a", "n", " ", "2", "1", " ", "1", "7", ":", "0", "5", ":", "3", "0",
      " ", "+", "0", "0", "0", "0", " ", "h", "o", "s", "t", " ", "a", "p", "p",
      ":", " ", "m", "s", "g", "\n">>

(* C15 as stated: the line "Jan 21 17:05:30 +0000 host app: msg" is        *)
(* matched by an entry whose parse format has a %z.                        *)
C15_MatchedWithZone ==
    (AfterMatch /\ line = SyslogZoneLine) =>
        match.matched /\ HasZone(match.strptime_fmt)

(* C15: the line "Jan 21 17:05:30 +0000 host app: msg" is matched by the   *)
(* last entry of the table, the syslog one, whose parse format             *)
(* "%b %d %H:%M:%S" has no %z; the match is the first 15 bytes, so the     *)
(* zone is left in the rest of the line; no entry with a %z matches the    *)
(* line, each starting with the digits of a day.                           *)
C15_MatchedBySyslog ==
    (AfterMatch /\ line = SyslogZoneLine) =>
        /\ match.matched
        /\ match.index = NTimestamps - 1
        /\ match.strptime_fmt = FmtSyslog
        /\ ~HasZone(match.strptime_fmt)
        /\ match.match_start = 0
        /\ match.match_end = 15
        /\ \A j \in 0 .. (NTimestamps - 1) :
               HasZone(timestamps[j].strptime_format) =>
                   pcre2_matches[line][j].rc < 0

(* the line has been written, its zone following the relative text *)
C15_Witness ==
    /\ Written
    /\ line = SyslogZoneLine
    /\ match.index = NTimestamps - 1
    /\ rel.exit = "relative"
    /\ LastWritten = buf \o SubSeq(line, 16, Len(line))

(* C16: the year is decremented exactly when the first instant mktime      *)
(* returned lies strictly after now; it is then decremented by 1, once,    *)
(* and the instant is what mktime makes of the fields with that year, be   *)
(* it after now or not; otherwise the instant and the fields are as the    *)
(* first mktime left them.                                                 *)
C16_SingleYearCorrection ==
    rpc = "render" =>
        /\ rel.decrements = (IF rel.trial > now THEN 1 ELSE 0)
        /\ rel.trial > now =>
            /\ parsed_tm.tm_year = localtime(rel.trial).tm_year - 1
            /\ parsed_time_t =
                   mktime([localtime(rel.trial) EXCEPT !.tm_year = @ - 1]).time
        /\ rel.trial <= now =>
            /\ parsed_time_t = rel.trial
            /\ parsed_tm = localtime(rel.trial)

(* a year 2030 read in 2024: one decrement, and the instant is still after *)
(* now                                                                     *)
C16_Witness ==
    /\ rpc = "render"
    /\ rel.trial > now
    /\ rel.decrements = 1
    /\ parsed_tm.tm_year = 2029 - 1900
    /\ parsed_time_t > now

(* the line whose timestamp is "Dec 21 17:05:30", read at                  *)
(* 2024-02-05T21:00:00Z                                                    *)
DecemberInFebruary ==
    /\ line = <<"x", " ", "D", "e", "c", " ", "2", "1", " ", "1", "7", ":",
                "0", "5", ":", "3", "0", " ", "y", "\n">>
    /\ now = 1707166800

(* C17 as stated: for "Dec 21 17:05:30" read at 2024-02-05T21:00:00Z the   *)
(* resolved instant has the year 2024 and the year is not decremented.     *)
C17_ResolvedIn2024 ==
    (rpc = "render" /\ DecemberInFebruary) =>
        /\ parsed_tm.tm_year = 2024 - 1900
        /\ rel.decrements = 0

(* C17: for "Dec 21 17:05:30" read at 2024-02-05T21:00:00Z the year is     *)
(* first taken to be 2024, the year of now; 2024-12-21T17:05:30Z lies      *)
(* after now, so the year is decremented once and the resolved instant is  *)
(* 2023-12-21T17:05:30Z, 46 days 3 hours 54 minutes 30 seconds before now. *)
C17_ResolvedIn2023 ==
    (rpc = "render" /\ DecemberInFebruary) =>
        /\ rel.strptime_year = 0
        /\ rel.year = 2024 - 1900
        /\ rel.trial = 1734800730
        /\ rel.trial > now
        /\ rel.decrements = 1
        /\ parsed_tm = [tm_year |-> 2023 - 1900, tm_mon |-> 11, tm_mday |-> 21,
                        tm_hour |-> 17, tm_min |-> 5, tm_sec |-> 30]
        /\ parsed_time_t = 1703178330
        /\ seconds_to_composite_time(seconds_diff(now, parsed_time_t))
               = COMP_TIME_INIT(0, 46, 3, 54, 30)

(* the line has been written, with the default precision: "46d4h ago y" *)
C17_Witness ==
    /\ Written
    /\ DecemberInFebruary
    /\ flag_precision = 2
    /\ rel.decrements = 1
    /\ LastWritten = <<"4", "6", "d", "4", "h", " ", "a", "g", "o", " ", "y", "\n">>

(* the parse format has a %Y or a %y *)
HasYear(format) ==
    \E k \in 1 .. (Len(format) - 1) :
        format[k] = "%" /\ format[k + 1] \in {"Y", "y"}

(* the year mktime is first given has been settled *)
YearSettled == rpc \in {"mktime", "future", "render"}

(* C18: mktime is first given the year of now when the parse format has no *)
(* year field, and the year strptime parsed, whatever it is, when the      *)
(* format has one.                                                         *)
C18_ParsedYearKept ==
    YearSettled =>
        /\ ~HasYear(match.strptime_fmt) => rel.year = localtime(now).tm_year
        /\ HasYear(match.strptime_fmt) => rel.year = rel.strptime_year

(* "1900-06-15T12:00:00" read in 2024: %Y parses 1900, tm_year is 0, and   *)
(* mktime is given 2024                                                    *)
C18_Witness ==
    /\ YearSettled
    /\ HasYear(match.strptime_fmt)
    /\ SubSeq(line, match.match_start + 1, match.match_start + 4)
           = <<"1", "9", "0", "0">>
    /\ rel.strptime_year = 0
    /\ rel.year = 2024 - 1900

(* fmt_time_rel has rendered a text for the current line *)
Rendered == rpc = "printf" /\ rel.exit \in {"right now", "relative"}

(* the units of the approximated composite time of a number of seconds,    *)
(* with no direction                                                       *)
DurationText(seconds) ==
    format_comp_time(<<>>,
                     approximate_time(flag_precision,
                                      seconds_to_composite_time(seconds)),
                     <<>>, 0)

(* C19: with diff = now - resolved, the text is "right now" when diff is   *)
(* 0, the approximated duration diff and " ago" when diff > 0, and the     *)
(* approximated duration -diff and " from now" when diff < 0.              *)
C19_DirectionBySign ==
    Rendered =>
        LET diff == now - parsed_time_t
        IN  /\ diff = 0 =>
                buf = <<"r", "i", "g", "h", "t", " ", "n", "o", "w">>
            /\ diff > 0 =>
                buf = DurationText(diff) \o <<" ", "a", "g", "o">>
            /\ diff < 0 =>
                buf = DurationText(-diff)
                          \o <<" ", "f", "r", "o", "m", " ", "n", "o", "w">>

(* an instant after now, rendered with " from now" *)
C19_Witness ==
    /\ Rendered
    /\ now - parsed_time_t < 0
    /\ flag_precision = 2
    /\ buf = <<"4", "y", "3", "3", "1", "d", " ", "f", "r", "o", "m", " ", "n", "o", "w">>

UnitLetters == <<"y", "d", "h", "m", "s">>

(* value and letter of every non-zero unit from unit i on, in order *)
RECURSIVE UnitsText(_, _)
UnitsText(ct, i) ==
    IF i > SECOND_UNIT THEN <<>>
    ELSE (IF ct[i] # 0 THEN Decimal(ct[i]) \o <<UnitLetters[i + 1]>> ELSE <<>>)
             \o UnitsText(ct, i + 1)

(* the composite time format_comp_time was given for the current line *)
RenderedCompTime ==
    approximate_time(flag_precision,
                     seconds_to_composite_time(labs(now - parsed_time_t)))

(* C20: the text format_comp_time leaves is, for each non-zero unit from   *)
(* the year to the second, its decimal value without leading zeros and its *)
(* letter y, d, h, m or s, nothing for a unit that is zero and nothing in  *)
(* between, and then the direction; the NUL that ends it is where the text *)
(* of buf ends.                                                            *)
C20_UnitsThenDirection ==
    (rpc = "printf" /\ rel.exit = "relative") =>
        buf = UnitsText(RenderedCompTime, YEAR_UNIT)
                  \o (IF now - parsed_time_t >= 0
                      THEN <<" ", "a", "g", "o">>
                      ELSE <<" ", "f", "r", "o", "m", " ", "n", "o", "w">>)

(* 1 year, 2 days and 4 hours: "1y2d4h ago" *)
C20_Witness ==
    /\ rpc = "printf"
    /\ rel.exit = "relative"
    /\ RenderedCompTime = COMP_TIME_INIT(1, 2, 4, 0, 0)
    /\ buf = <<"1", "y", "2", "d", "4", "h", " ", "a", "g", "o">>

(* the last pass jumped back to the label reapproximate *)
Restarted == last.exit \in {"collapse", "overflow"}

(* a pass that jumps back does so at a more significant unit than the pass *)
(* before it                                                               *)
RestartsAscend ==
    (pc = "reapproximate" /\ Restarted /\ passes' = passes + 1 /\ pc' = pc)
        => (0 < last'.index /\ last'.index < last.index)

(***************************************************************************)
(* C27.  approximate_time terminates within TIME_UNIT_COUNT scans: a call  *)
(* never makes more than five passes (at most four that modify the         *)
(* composite time and jump back, then one that finds nothing to do), and   *)
(* every pass that jumps back does so at a strictly more significant unit  *)
(* index than the pass before it.  With the passes bounded and one of the  *)
(* three exits always open, the call returns.                              *)
(***************************************************************************)
C27_AtMostFiveScans ==
    /\ [](passes <= TIME_UNIT_COUNT)
    /\ [](pc = "reapproximate" => passes < TIME_UNIT_COUNT)
    /\ [][RestartsAscend]_vars

(* a call that needed all five scans: four restarts, then the clean one *)
C27_Witness ==
    /\ pc = "returned"
    /\ passes = TIME_UNIT_COUNT
    /\ last.index = DAY_UNIT
    /\ precision \in RelPrecisions

(***************************************************************************)
(* Ages in ascending order.  fmt_time_rel turns the age of a timestamp     *)
(* into the seconds its text stands for by lines 625-629; the comparison   *)
(* walks through ages from zero upwards and keeps, of all the younger      *)
(* timestamps, the one whose text stands for the most.                     *)
(***************************************************************************)

(* the values a unit of an age takes: either side of the rounding          *)
(* threshold, the smallest and the largest                                 *)
MonoValues(i) ==
    IF i = YEAR_UNIT THEN 0 .. MaxYear
    ELSE {0, 1, Halfway(i) - 1, Halfway(i), MAX_VALUES[i] - 1}

MonoLargest(i) == IF i = YEAR_UNIT THEN MaxYear ELSE MAX_VALUES[i] - 1

(* the next age after ct: the least significant unit that can grow grows, *)
(* the units after it start again at zero                                  *)
next_age(ct) ==
    LET i == CHOOSE k \in Units :
                /\ ct[k] < MonoLargest(k)
                /\ \A j \in (k + 1) .. (TIME_UNIT_COUNT - 1) : ct[j] = MonoLargest(j)
        v == CHOOSE x \in MonoValues(i) :
                /\ x > ct[i]
                /\ \A y \in MonoValues(i) : y > ct[i] => x <= y
    IN  [j \in Units |-> IF j < i THEN ct[j] ELSE IF j = i THEN v ELSE 0]

(* lines 625-629, then the seconds the composite time stands for *)
shown_seconds(precision_flag, diff) ==
    composite_time_to_seconds(
        approximate_time(precision_flag, seconds_to_composite_time(labs(diff))))

(* the comparison starts: -p sets the precision, the first age is zero *)
MonoStart ==
    /\ mono_precision = 0
    /\ \E p \in RelPrecisions : mono_precision' = p
    /\ mono_shown' = shown_seconds(mono_precision', mono_diff)
    /\ UNCHANGED <<mono_time, mono_diff, older_diff, older_shown>>
    /\ UNCHANGED <<approx_vars, rel_vars, main_vars>>

(* the next, older timestamp is shown *)
MonoElapse ==
    /\ mono_precision # 0
    /\ mono_time # [k \in Units |-> MonoLargest(k)]
    /\ mono_time' = next_age(mono_time)
    /\ mono_diff' = composite_time_to_seconds(mono_time')
    /\ mono_shown' = shown_seconds(mono_precision, mono_diff')
    /\ older_diff' = IF mono_shown > older_shown THEN mono_diff ELSE older_diff
    /\ older_shown' = IF mono_shown > older_shown THEN mono_shown ELSE older_shown
    /\ UNCHANGED mono_precision
    /\ UNCHANGED <<approx_vars, rel_vars, main_vars>>

NextMono ==
    \/ MonoStart
    \/ MonoElapse

SpecMono == Init /\ [][NextMono]_vars

(***************************************************************************)
(* C30.  Approximation is monotone in the elapsed time: for a precision    *)
(* of 1..4, the seconds the text of a timestamp stands for are never less  *)
(* than the seconds the text of any younger timestamp stands for.          *)
(***************************************************************************)
C30_Monotone ==
    mono_precision \in RelPrecisions =>
        /\ older_diff <= mono_diff
        /\ older_shown <= mono_shown

(* two ages that differ and are shown alike, the older one rounded down    *)
(* and the younger one rounded up                                          *)
C30_Witness ==
    /\ mono_precision \in RelPrecisions
    /\ older_diff < mono_diff
    /\ older_shown = mono_shown
    /\ older_diff < older_shown
    /\ mono_shown < mono_diff
    /\ mono_time[YEAR_UNIT] > 0

(***************************************************************************)
(* C29.  With -r, when a pattern matches and the matched text parses, what *)
(* is written for the line is the rendered text immediately followed by    *)
(* the line from the end of the match to its end: neither the matched      *)
(* timestamp nor what precedes it in the line is written, and nothing is   *)
(* put between the text and the rest of the line.                          *)
(***************************************************************************)
ParsedAndWritten == Written /\ rel.exit \in {"right now", "relative"}

RestOfLine == SubSeq(line, pcre2_matches[line][match.index].end + 1, Len(line))

C29_TextThenRestOfLine ==
    ParsedAndWritten =>
        /\ match.matched
        /\ buf # <<>>
        /\ LastWritten = buf \o RestOfLine
        /\ Len(LastWritten) = Len(buf) + Len(line) - match.match_end

(* a line with text before and after its timestamp, the timestamp being    *)
(* the instant of the clock                                                *)
C29_Witness ==
    /\ ParsedAndWritten
    /\ line = <<"x", " ", "D", "e", "c", " ", "2", "1", " ", "1", "7", ":",
                "0", "5", ":", "3", "0", " ", "y", "\n">>
    /\ match.match_start = 2
    /\ LastWritten = <<"r", "i", "g", "h", "t", " ", "n", "o", "w", " ", "y", "\n">>

(***************************************************************************)
(* main, with any options.  The loop is entered at "getline"; with -r a    *)
(* line goes through the steps of fmt_time_rel above, and through Printf.  *)
(***************************************************************************)
SIGINT == 2

SIGTERM == 15

(* what fmt_time_rel works with, and main does not touch *)
fmt_time_rel_vars == <<match, parsed_tm, parsed_time_t, rel>>

(* line 1045: parse_options *)
ParseAnyOptions ==
    /\ rpc = "start"
    /\ \E argv \in Argvs :
        LET r == parse_options(argv)
        IN  /\ opt' = IF r.failed THEN opt ELSE r.option
            /\ flag_precision' = IF r.failed THEN flag_precision
                                 ELSE r.option.flag_precision
            /\ rpc' = IF r.failed THEN "exit" ELSE "init_clocks"
            /\ status' = IF r.failed THEN "EXIT_FAILURE" ELSE status
    /\ UNCHANGED <<line, now, buf, offset, stdout, nlines, fmt_time_rel_vars>>
    /\ UNCHANGED <<realtime, secs, nsecs, monodelta, now_nsec, signal_received,
                   sanitised_time_format, n_microseconds_specifiers, bufsz,
                   left, started, history>>
    /\ UNCHANGED <<approx_vars, mono_vars>>

(* lines 1052-1055: init_clocks reads the realtime clock and, with -m, the *)
(* monotonic one; a clock that cannot be read ends the program             *)
InitClocks ==
    /\ rpc = "init_clocks"
    /\ \/ \E a \in Advances, b \in Advances :
            LET real_reading == timespec_add(realtime, a)
                at_end == IF opt.flag_mono THEN timespec_add(real_reading, b)
                          ELSE real_reading
                mono_reading == timespec_sub(at_end, BootTime)
                r == init_clocks(opt, real_reading, mono_reading)
            IN  /\ realtime' = at_end
                /\ secs' = r.last_seconds
                /\ nsecs' = r.last_nanoseconds
                /\ monodelta' = r.monodelta
                /\ started' = IF opt.flag_mono THEN mono_reading ELSE real_reading
                /\ rpc' = IF r.fatal THEN "exit" ELSE "sanitise"
                /\ status' = IF r.fatal THEN "EXIT_FAILURE" ELSE status
       \/ /\ rpc' = "exit"
          /\ status' = "EXIT_FAILURE"
          /\ UNCHANGED <<realtime, secs, nsecs, monodelta, started>>
    /\ UNCHANGED <<flag_precision, line, now, buf, offset, stdout, nlines,
                   fmt_time_rel_vars>>
    /\ UNCHANGED <<opt, now_nsec, signal_received, sanitised_time_format,
                   n_microseconds_specifiers, bufsz, left, history>>
    /\ UNCHANGED <<approx_vars, mono_vars>>

(* lines 1057-1070: sanitise_time_format and validate_time_format *)
PrepareFormat ==
    /\ rpc = "sanitise"
    /\ sanitised_time_format' =
            sanitise_time_format(opt.format,
                                 IF opt.flag_rel THEN COLLAPSE_MICROSECOND_SPECFIERS
                                 ELSE EXPAND_MICROSECOND_SPECIFIERS)
    /\ n_microseconds_specifiers' = count_microsecond_specifiers(opt.format)
    /\ LET v == validate_time_format(sanitised_time_format')
       IN  /\ bufsz' = v.bufsz
           /\ rpc' = IF v.rc # 0 THEN "exit" ELSE "getline"
           /\ status' = IF v.rc # 0 THEN "EXIT_FAILURE" ELSE status
    /\ UNCHANGED <<flag_precision, line, now, buf, offset, stdout, nlines,
                   fmt_time_rel_vars>>
    /\ UNCHANGED <<opt, realtime, secs, nsecs, monodelta, now_nsec,
                   signal_received, left, started, history>>
    /\ UNCHANGED <<approx_vars, mono_vars>>

(* line 1076: while (!signal_received) *)
LoopCondition ==
    /\ rpc = "getline"
    /\ rpc' = IF signal_received # 0 THEN "fflush" ELSE "call"
    /\ left' = IF signal_received # 0 THEN [left EXCEPT !.cause = "signal"]
               ELSE left
    /\ UNCHANGED <<flag_precision, line, now, buf, offset, stdout, nlines,
                   fmt_time_rel_vars>>
    /\ UNCHANGED <<opt, realtime, secs, nsecs, monodelta, now_nsec,
                   signal_received, sanitised_time_format,
                   n_microseconds_specifiers, bufsz, status, started, history>>
    /\ UNCHANGED <<approx_vars, mono_vars>>

(* line 1077: getline is called and, with no input at hand, blocks in read *)
EnterRead ==
    /\ rpc = "call"
    /\ rpc' = "read"
    /\ UNCHANGED <<flag_precision, line, now, buf, offset, stdout, nlines,
                   fmt_time_rel_vars>>
    /\ UNCHANGED main_vars
    /\ UNCHANGED <<approx_vars, mono_vars>>

(* line 1077: a line arrives and getline returns it *)
ReadLine ==
    /\ rpc = "read"
    /\ Len(history) < MaxReadings
    /\ \E l \in MainLines : line' = l
    /\ rpc' = "gettime"
    /\ UNCHANGED <<flag_precision, now, buf, offset, stdout, nlines,
                   fmt_time_rel_vars>>
    /\ UNCHANGED main_vars
    /\ UNCHANGED <<approx_vars, mono_vars>>

(* lines 1079-1081: the input ends, getline returns -1 and feof holds *)
ReadEof ==
    /\ rpc = "read"
    /\ rpc' = "fflush"
    /\ left' = [left EXCEPT !.cause = "feof"]
    /\ UNCHANGED <<flag_precision, line, now, buf, offset, stdout, nlines,
                   fmt_time_rel_vars>>
    /\ UNCHANGED <<opt, realtime, secs, nsecs, monodelta, now_nsec,
                   signal_received, sanitised_time_format,
                   n_microseconds_specifiers, bufsz, status, started, history>>
    /\ UNCHANGED <<approx_vars, mono_vars>>

(* lines 1082-1085: read fails with an error other than EINTR *)
ReadError ==
    /\ rpc = "read"
    /\ rpc' = "fflush"
    /\ left' = [left EXCEPT !.cause = "getline"]
    /\ UNCHANGED <<flag_precision, line, now, buf, offset, stdout, nlines,
                   fmt_time_rel_vars>>
    /\ UNCHANGED <<opt, realtime, secs, nsecs, monodelta, now_nsec,
                   signal_received, sanitised_time_format,
                   n_microseconds_specifiers, bufsz, status, started, history>>
    /\ UNCHANGED <<approx_vars, mono_vars>>

(* lines 1000-1003: SIGINT or SIGTERM is delivered and signal_handler      *)
(* stores it.  The handlers are installed without SA_RESTART (lines        *)
(* 1009-1027): a read that is blocked returns -1 with EINTR, and lines     *)
(* 1079-1081 leave the loop; anywhere else the program goes on where it    *)
(* was.                                                                    *)
Signal ==
    /\ rpc \notin {"start", "exit"}
    /\ \E sig \in {SIGINT, SIGTERM} : signal_received' = sig
    /\ rpc' = IF rpc = "read" THEN "fflush" ELSE rpc
    /\ left' = IF rpc = "read" THEN [left EXCEPT !.cause = "EINTR"] ELSE left
    /\ UNCHANGED <<flag_precision, line, now, buf, offset, stdout, nlines,
                   fmt_time_rel_vars>>
    /\ UNCHANGED <<opt, realtime, secs, nsecs, monodelta, now_nsec,
                   sanitised_time_format, n_microseconds_specifiers, bufsz,
                   status, started, history>>
    /\ UNCHANGED <<approx_vars, mono_vars>>

(* lines 1088-1094: gettime reads the clock -m chooses; offset = 0.  A     *)
(* clock that cannot be read leaves the loop.                              *)
GetTimeOfLine ==
    /\ rpc = "gettime"
    /\ \/ /\ \E a \in Advances :
                LET t == timespec_add(realtime, a)
                    reading == IF opt.flag_mono THEN timespec_sub(t, BootTime)
                               ELSE t
                    r == gettime(opt, reading, secs, nsecs, monodelta)
                IN  /\ realtime' = t
                    /\ now' = r.now.tv_sec
                    /\ now_nsec' = r.now.tv_nsec
                    /\ secs' = r.last_seconds
                    /\ nsecs' = r.last_nanoseconds
                    /\ history' = Append(history,
                                         [line |-> line, reading |-> reading,
                                          now |-> r.now])
          /\ offset' = 0
          /\ rpc' = IF opt.flag_rel THEN "fmt_time_rel" ELSE "fmt_time_now"
          /\ left' = left
       \/ /\ rpc' = "fflush"
          /\ left' = [left EXCEPT !.cause = "gettime"]
          /\ UNCHANGED <<realtime, now, now_nsec, secs, nsecs, history, offset>>
    /\ UNCHANGED <<flag_precision, line, buf, stdout, nlines, fmt_time_rel_vars>>
    /\ UNCHANGED <<opt, monodelta, signal_received, sanitised_time_format,
                   n_microseconds_specifiers, bufsz, status, started>>
    /\ UNCHANGED <<approx_vars, mono_vars>>

(* line 1099: fmt_time_now.  When the text does not fit in fmt.buf         *)
(* strftime returns 0 and leaves the contents of the buffer indeterminate: *)
(* nothing but the NUL of line 638, or the text cut at the size of the     *)
(* buffer.                                                                 *)
FmtTimeNow ==
    /\ rpc = "fmt_time_now"
    /\ LET tm == localtime(now)
       IN  IF strftime(bufsz, sanitised_time_format, tm).fits
           THEN buf' = fmt_time_now(sanitised_time_format, n_microseconds_specifiers,
                                    bufsz, now, now_nsec)
           ELSE buf' \in {<<>>,
                          SubSeq(strftime_text(sanitised_time_format, 0, tm),
                                 1, bufsz - 1)}
    /\ rpc' = "printf_now"
    /\ UNCHANGED <<flag_precision, line, now, offset, stdout, nlines,
                   fmt_time_rel_vars>>
    /\ UNCHANGED main_vars
    /\ UNCHANGED <<approx_vars, mono_vars>>

(* line 1101 without -r: the text, a space, the line *)
PrintfNow ==
    /\ rpc = "printf_now"
    /\ stdout' = Append(stdout, buf \o <<" ">> \o SubSeq(line, offset + 1, Len(line)))
    /\ nlines' = nlines + 1
    /\ rpc' = "getline"
    /\ UNCHANGED <<flag_precision, line, now, buf, offset, fmt_time_rel_vars>>
    /\ UNCHANGED main_vars
    /\ UNCHANGED <<approx_vars, mono_vars>>

(* lines 1101-1104: printf fails *)
PrintfFails ==
    /\ rpc \in {"printf", "printf_now"}
    /\ rpc' = "fflush"
    /\ left' = [left EXCEPT !.cause = "write"]
    /\ UNCHANGED <<flag_precision, line, now, buf, offset, stdout, nlines,
                   fmt_time_rel_vars>>
    /\ UNCHANGED <<opt, realtime, secs, nsecs, monodelta, now_nsec,
                   signal_received, sanitised_time_format,
                   n_microseconds_specifiers, bufsz, status, started, history>>
    /\ UNCHANGED <<approx_vars, mono_vars>>

(* the process ends without fflush(stdout) *)
exit_without_fflush ==
    /\ rpc = "fflush"
    /\ \E failed \in BOOLEAN :
        status' = IF failed THEN "EXIT_FAILURE" ELSE "EXIT_SUCCESS"
    /\ rpc' = "exit"
    /\ UNCHANGED <<flag_precision, line, now, buf, offset, stdout, nlines,
                   fmt_time_rel_vars>>
    /\ UNCHANGED <<opt, realtime, secs, nsecs, monodelta, now_nsec,
                   signal_received, sanitised_time_format,
                   n_microseconds_specifiers, bufsz, left, started, history>>
    /\ UNCHANGED <<approx_vars, mono_vars>>

(* lines 1116-1121: fflush(stdout), then the process ends *)
Fflush ==
    /\ rpc = "fflush"
    /\ left' = [left EXCEPT !.fflush = TRUE]
    /\ \E failed \in BOOLEAN :
        status' = IF failed THEN "EXIT_FAILURE" ELSE "EXIT_SUCCESS"
    /\ rpc' = "exit"
    /\ UNCHANGED <<flag_precision, line, now, buf, offset, stdout, nlines,
                   fmt_time_rel_vars>>
    /\ UNCHANGED <<opt, realtime, secs, nsecs, monodelta, now_nsec,
                   signal_received, sanitised_time_format,
                   n_microseconds_specifiers, bufsz, started, history>>
    /\ UNCHANGED <<approx_vars, mono_vars>>

(* what the program does of its own accord *)
Program ==
    \/ ParseAnyOptions
    \/ InitClocks
    \/ PrepareFormat
    \/ LoopCondition
    \/ EnterRead
    \/ GetTimeOfLine
    \/ MatchNone
    \/ MatchFound
    \/ StrptimeFails
    \/ StrptimeParses
    \/ DefaultYear
    \/ Mktime
    \/ CorrectFuture
    \/ KeepPast
    \/ RenderRightNow
    \/ RenderRelative
    \/ Printf
    \/ FmtTimeNow
    \/ PrintfNow
    \/ Fflush

(* what happens to it: input, the end of the input, errors, signals *)
Environment ==
    \/ ReadLine
    \/ ReadEof
    \/ ReadError
    \/ Signal
    \/ PrintfFails

NextMain ==
    \/ Program
    \/ Environment

SpecMain == Init /\ [][NextMain]_vars

(***************************************************************************)
(* C21.  A SIGINT or SIGTERM delivered at any point of the loop (while     *)
(* read is blocked, while a line is processed, or between the test of the  *)
(* loop condition and the read) is eventually followed by the end of the   *)
(* loop, the flush and the exit of the process, whether or not more input  *)
(* arrives.                                                                *)
(***************************************************************************)
C21_SignalEndsLoop == (signal_received # 0) ~> (rpc = "exit")

(* the read is blocked although a signal was received: it was delivered    *)
(* after the loop condition was tested and before the read                 *)
C21_Witness ==
    /\ rpc = "read"
    /\ signal_received = SIGINT
    /\ left.cause = "none"
    /\ history = <<>>

(***************************************************************************)
(* The loop of a run of ts without options or operand.                     *)
(***************************************************************************)

(* line 1045: parse_options when ts is given no arguments *)
ParseNoOptions ==
    /\ rpc = "start"
    /\ LET r == parse_options([options |-> {}, precision |-> <<>>, operand |-> <<>>])
       IN  /\ opt' = r.option
           /\ flag_precision' = r.option.flag_precision
    /\ rpc' = "init_clocks"
    /\ UNCHANGED <<line, now, buf, offset, stdout, nlines, fmt_time_rel_vars>>
    /\ UNCHANGED <<realtime, secs, nsecs, monodelta, now_nsec, signal_received,
                   sanitised_time_format, n_microseconds_specifiers, bufsz,
                   status, left, started, history>>
    /\ UNCHANGED <<approx_vars, mono_vars>>

ProgramLoop ==
    \/ ParseNoOptions
    \/ InitClocks
    \/ PrepareFormat
    \/ LoopCondition
    \/ EnterRead
    \/ GetTimeOfLine
    \/ FmtTimeNow
    \/ PrintfNow
    \/ Fflush

NextLoop ==
    \/ ProgramLoop
    \/ Environment

(* The program is scheduled until it ends; nothing obliges its input to    *)
(* arrive or to end, nor a signal to be sent.                              *)
SpecLoopFair == Init /\ [][NextLoop]_vars /\ WF_vars(ProgramLoop)

(* the ways the loop of main is left *)
LoopExits == {"signal", "EINTR", "feof", "getline", "gettime", "write"}

(* the k-th write is the output for the k-th line read: without -r it ends *)
(* with a space and the whole line, with -r with the end of the line       *)
WrittenFor(k) ==
    LET l == history[k].line
        w == stdout[k]
    IN  IF opt.flag_rel
        THEN /\ Len(w) >= 3
             /\ SubSeq(w, Len(w) - 2, Len(w)) = SubSeq(l, Len(l) - 2, Len(l))
        ELSE /\ Len(w) > Len(l)
             /\ SubSeq(w, Len(w) - Len(l), Len(w)) = <<" ">> \o l

(* the process has not exited after the loop without fflush(stdout) *)
FlushedBeforeExit ==
    /\ left.cause \in LoopExits \cup {"none"}
    /\ (rpc = "exit" /\ left.cause # "none") => left.fflush
    /\ left.fflush => rpc = "exit"

(* one write per line read, in the order the lines were read *)
OneWritePerLine ==
    /\ Len(stdout) <= Len(history)
    /\ Len(history) <= Len(stdout) + 1
    /\ rpc \in {"getline", "call", "read", "gettime"} => Len(stdout) = Len(history)
    /\ \A k \in 1 .. Len(stdout) : WrittenFor(k)

(* a step that changes stdout is a printf that adds one write at the end *)
WritesAppend ==
    \/ stdout' = stdout
    \/ /\ rpc \in {"printf", "printf_now"}
       /\ Len(stdout') = Len(stdout) + 1
       /\ SubSeq(stdout', 1, Len(stdout)) = stdout

(***************************************************************************)
(* C22.  However the loop is left (a signal seen by the loop condition, a  *)
(* read interrupted by a signal, the end of the input, a read error, a     *)
(* clock that cannot be read, a failed write), the process exits only      *)
(* after fflush(stdout).  Each line read gets one write, in the order the  *)
(* lines were read, and what was written is never changed afterwards.      *)
(***************************************************************************)
C22_FlushAndOrder ==
    /\ [](FlushedBeforeExit /\ OneWritePerLine)
    /\ [][WritesAppend]_vars

(* the write of the second line failed: the loop was left, the text of the *)
(* first line is still there, and stdout was flushed before the exit       *)
C22_Witness ==
    /\ rpc = "exit"
    /\ left = [cause |-> "write", fflush |-> TRUE]
    /\ Len(history) = 2
    /\ Len(stdout) = 1
    /\ history[1].line # history[2].line

(***************************************************************************)
(* The increments of -i and the elapsed times of -s.                       *)
(***************************************************************************)

(* the reading the k-th line's reading is compared with under -i: the      *)
(* reading of the line before, that of init_clocks for the first line      *)
ReadingBefore(k) == IF k = 1 THEN started ELSE history[k - 1].reading

(* what was handed to the formatter for the k-th line is the time from     *)
(* the reading `since` to the reading of that line: added to `since` it    *)
(* gives the reading; without the high resolution it is whole seconds      *)
HandedElapsed(k, since) ==
    LET handed == history[k].now
    IN  IF opt.hires_timestamping
        THEN /\ handed.tv_nsec \in 0 .. (NANOSECONDS_PER_SECOND - 1)
             /\ timespec_add(since, handed) = history[k].reading
        ELSE /\ handed.tv_nsec = 0
             /\ since.tv_sec + handed.tv_sec = history[k].reading.tv_sec

(* the reading of init_clocks and the first n values handed to the         *)
(* formatter, added up                                                     *)
RECURSIVE StartPlusIncrements(_)
StartPlusIncrements(n) ==
    IF n = 0 THEN started
    ELSE LET sum == StartPlusIncrements(n - 1)
         IN  IF opt.hires_timestamping THEN timespec_add(sum, history[n].now)
             ELSE [tv_sec |-> sum.tv_sec + history[n].now.tv_sec,
                   tv_nsec |-> sum.tv_nsec]

(* secs and nsecs hold the reading of the last line read *)
LastIsLatestReading ==
    LET latest == history[Len(history)].reading
    IN  /\ secs = latest.tv_sec + monodelta
        /\ nsecs = IF opt.hires_timestamping THEN latest.tv_nsec ELSE 0

(***************************************************************************)
(* C23.  With -i the value handed to the formatter for a line is the time  *)
(* between the reading of the clock for the line before (of init_clocks    *)
(* for the first line) and the reading for this line, in seconds and, with *)
(* the high resolution, nanoseconds; afterwards the stored last reading is *)
(* this line's.  The first n increments add up to the n-th reading less    *)
(* the reading of init_clocks.                                             *)
(***************************************************************************)
C23_Increments ==
    (opt.flag_inc /\ history # <<>>)
        => /\ \A k \in 1 .. Len(history) : HandedElapsed(k, ReadingBefore(k))
           /\ LastIsLatestReading
           /\ \A n \in 1 .. Len(history) :
                IF opt.hires_timestamping
                THEN StartPlusIncrements(n) = history[n].reading
                ELSE StartPlusIncrements(n).tv_sec = history[n].reading.tv_sec

(* -i with microseconds: two lines, the first read 123 microseconds after  *)
(* the start across the boundary of a second, so that the nanoseconds are  *)
(* borrowed from, the second nearly three seconds later                    *)
C23_Witness ==
    /\ opt.flag_inc
    /\ opt.hires_timestamping
    /\ ~opt.flag_mono
    /\ Len(history) = 2
    /\ history[1].reading.tv_nsec < started.tv_nsec
    /\ history[1].now = [tv_sec |-> 0, tv_nsec |-> 123000]
    /\ history[2].now = [tv_sec |-> 2, tv_nsec |-> 999877000]
    /\ rpc = "getline"

(* with -s a step after init_clocks leaves secs and nsecs as they are *)
LastKept ==
    (opt.flag_sincestart /\ rpc \notin {"start", "init_clocks"})
        => UNCHANGED <<secs, nsecs>>

(***************************************************************************)
(* C24.  With -s gettime leaves last_seconds and last_nanoseconds as       *)
(* init_clocks set them, and the value handed to the formatter for every   *)
(* line is the time between the reading of init_clocks and the reading of  *)
(* the clock for that line.                                                *)
(***************************************************************************)
C24_SinceStart ==
    /\ []((opt.flag_sincestart /\ history # <<>>)
            => /\ \A k \in 1 .. Len(history) : HandedElapsed(k, started)
               /\ secs = started.tv_sec + monodelta
               /\ nsecs = IF opt.hires_timestamping THEN started.tv_nsec ELSE 0)
    /\ [][LastKept]_vars

(* -s with microseconds: the first line 123 microseconds after the start,  *)
(* the second three seconds after the start                                *)
C24_Witness ==
    /\ opt.flag_sincestart
    /\ opt.hires_timestamping
    /\ Len(history) = 2
    /\ history[1].now = [tv_sec |-> 0, tv_nsec |-> 123000]
    /\ history[2].now = [tv_sec |-> 3, tv_nsec |-> 0]
    /\ <<secs, nsecs>> = <<started.tv_sec, started.tv_nsec>>
    /\ rpc = "getline"

(* the text of the format takes more than MAX_TIME_BUFSZ bytes, its NUL    *)
(* included                                                                *)
NeedsMoreThanCap(format) == ~strftime(MAX_TIME_BUFSZ, format, ZeroTm).fits

(***************************************************************************)
(* C25.  A format whose text needs more than MAX_TIME_BUFSZ bytes is       *)
(* rejected when the program starts: validate_time_format fails and the    *)
(* program exits with EXIT_FAILURE without having read a line.             *)
(***************************************************************************)
C25_LongFormatRejected ==
    (rpc \notin {"start", "init_clocks", "sanitise"}
        /\ NeedsMoreThanCap(sanitised_time_format))
      => /\ rpc = "exit"
         /\ status = "EXIT_FAILURE"
         /\ history = <<>>

(* a format of MAX_TIME_BUFSZ characters was accepted with a buffer of     *)
(* MAX_TIME_BUFSZ bytes, and a line was read and written                   *)
C25_Witness ==
    /\ Len(opt.format) = MAX_TIME_BUFSZ
    /\ NeedsMoreThanCap(sanitised_time_format)
    /\ bufsz = MAX_TIME_BUFSZ
    /\ Len(history) = 1
    /\ Len(stdout) = 1
    /\ rpc = "getline"

(* the six decimal digits of a number of microseconds, zeros first *)
MicrosecondText(microseconds) ==
    [k \in 1 .. 6 |->
        LET place == CASE k = 1 -> 100000 [] k = 2 -> 10000 [] k = 3 -> 1000
                       [] k = 4 -> 100 [] k = 5 -> 10 [] k = 6 -> 1
        IN  DigitSeq[((microseconds \div place) % 10) + 1]]

(***************************************************************************)
(* C26.  With %.S, %.s or %.T in the format, the six digits after each     *)
(* decimal point of the text fmt_time_now leaves in the buffer are the     *)
(* microseconds of the line's time, tv_nsec / 1000, right-aligned and      *)
(* padded with zeros on the left: 123 microseconds give .000123.           *)
(***************************************************************************)
C26_MicrosecondsRightAligned ==
    (rpc = "printf_now" /\ n_microseconds_specifiers > 0)
        => \A i \in 1 .. Len(buf) :
             buf[i] = "."
               => SubSeq(buf, i + 1, i + 6) = MicrosecondText(now_nsec \div 1000)

(* -i with %.s, a line 123 microseconds after the start: the buffer holds *)
(* 0.123000                                                               *)
C26_Witness ==
    /\ rpc = "printf_now"
    /\ opt.format = <<"%", ".", "s">>
    /\ opt.flag_inc
    /\ now = 0
    /\ now_nsec = 123000
    /\ buf = <<"0", ".", "1", "2", "3", "0", "0", "0">>

(***************************************************************************)
(* C28.  With -r the now handed to fmt_time_rel for a line is the reading  *)
(* of the clock for that line as an instant of the wall clock (with -m the *)
(* monotonic reading moved by monodelta), whichever of -i, -s and -m are   *)
(* given, and it is the instant the line's timestamp is compared with.     *)
(***************************************************************************)
C28_NowIsWallClock ==
    (opt.flag_rel /\ history # <<>>)
        => /\ \A k \in 1 .. Len(history) :
                history[k].now.tv_sec = history[k].reading.tv_sec + monodelta
           /\ now = history[Len(history)].reading.tv_sec + monodelta

(* -r -s, the line "Feb  5 21:00:00 n" read at 21:00:00 on the 5th of      *)
(* February 2024, three seconds after the start: now is 3, and the line is *)
(* 329 days and 3 hours old                                                *)
C28_Witness ==
    /\ opt.flag_rel
    /\ opt.flag_sincestart
    /\ rpc = "printf"
    /\ history[Len(history)].reading.tv_sec = 1707166800
    /\ now = 3
    /\ buf = <<"3", "2", "9", "d", "3", "h", " ", "a", "g", "o">>
====
